---- MODULE Spec2Model ----
(***************************************************************************)
(* Model of buscador-menciones: the text normaliser, the mention counter,  *)
(* the word aggregation and the orchestrator analizar_menciones_web of     *)
(* src/analisis_core.py, with the store of src/datos_repository.py and the *)
(* search collaborator of src/fuentes_web.py as far as the orchestrator    *)
(* uses them.                                                              *)
(*                                                                         *)
(* A Python str is a sequence of characters; a character is a TLA+ string. *)
(* The accented letters are written with ASCII stand-ins: "a'" is a with   *)
(* acute accent, "n~" is n with tilde, "u:" is u with diaeresis, and the   *)
(* same with a capital for the upper-case letters.  "NEL" is the control    *)
(* character U+0085 (next line), which Python counts as whitespace.        *)
(***************************************************************************)
EXTENDS Integers, Sequences, FiniteSets, TLC

VARIABLES
    pc,                  \* position of analizar_menciones_web
    entrada,             \* arguments of the run
    grupo_terminos,      \* grupo_terminos after _normalizar_grupo_terminos
    modo,                \* local modo (line 289)
    resultados_web,      \* what buscar_paginas_web returned
    idx,                 \* position of the for loop of lines 300-316
    registros,           \* registros (lines 299-316)
    df_paginas,          \* df_paginas (lines 318-387)
    df_top_palabras,     \* df_top_palabras (line 389)
    contadores,          \* the date counters of lines 348-374
    retorno,             \* what the call returned or raised
    llamadas_busqueda,   \* calls of buscar_paginas_web made by the run
    bd,                  \* the tables paginas, terminos and menciones
    _stopwords_es,       \* the module-level cache of line 27
    fn                   \* a pure function's call: its arguments and result

vars == <<pc, entrada, grupo_terminos, modo, resultados_web, idx, registros,
          df_paginas, df_top_palabras, contadores, retorno, llamadas_busqueda,
          bd, _stopwords_es, fn>>

(***************************************************************************)
(* Characters                                                              *)
(***************************************************************************)
Abecedario ==
    <<"a","b","c","d","e","f","g","h","i","j","k","l","m",
      "n","o","p","q","r","s","t","u","v","w","x","y","z">>

AbecedarioMayus ==
    <<"A","B","C","D","E","F","G","H","I","J","K","L","M",
      "N","O","P","Q","R","S","T","U","V","W","X","Y","Z">>

Acentuadas == <<"a'","e'","i'","o'","u'","n~","u:">>

AcentuadasMayus == <<"A'","E'","I'","O'","U'","N~","U:">>

SinAcento == <<"a","e","i","o","u","n","u">>

SinAcentoMayus == <<"A","E","I","O","U","N","U">>

Digitos == {"0","1","2","3","4","5","6","7","8","9"}

Espacios == {" ", "\t", "\n", "NEL"}

Rango(s) == {s[i] : i \in DOMAIN s}

Minusculas == Rango(Abecedario)

Mayusculas == Rango(AbecedarioMayus)

MinusculasAcentuadas == Rango(Acentuadas)

MayusculasAcentuadas == Rango(AcentuadasMayus)

\* the character at the place of c in the sequence a, taken from b
Parejas(a, b) == [c \in Rango(a) |-> b[CHOOSE i \in DOMAIN a : a[i] = c]]

TablaLower == Parejas(AbecedarioMayus \o AcentuadasMayus, Abecedario \o Acentuadas)

TablaUnidecode == Parejas(Acentuadas \o AcentuadasMayus, SinAcento \o SinAcentoMayus)

\* str.lower() on one character
Lower(c) == IF c \in DOMAIN TablaLower THEN TablaLower[c] ELSE c

\* unidecode() on one character
Unidecode(c) == IF c \in DOMAIN TablaUnidecode THEN TablaUnidecode[c] ELSE c

\* the characters unidecode() gives the empty string for: the controls
\* U+0080..U+009F
SinImagen == {"NEL"}

TieneImagen(c) == c \notin SinImagen

\* \s of the re module
EsEspacio(c) == c \in Espacios

\* \w of the re module (str patterns: Unicode letters, digits, underscore)
CaracteresW ==
    Minusculas \cup Mayusculas \cup MinusculasAcentuadas \cup MayusculasAcentuadas
        \cup Digitos \cup {"_"}

EsW(c) == c \in CaracteresW

\* the class [a-záéíóúñü\s] of line 66
CaracteresAlfabeto == Minusculas \cup MinusculasAcentuadas \cup Espacios

EsAlfabeto(c) == c \in CaracteresAlfabeto

MapChars(s, F(_)) == [i \in DOMAIN s |-> F(s[i])]

\* unidecode() on a string: the images of its characters, one after another
unidecode(s) == MapChars(SelectSeq(s, TieneImagen), Unidecode)

\* s[i..] starts with the literal lit
EmpiezaCon(s, i, lit) ==
    /\ i + Len(lit) - 1 <= Len(s)
    /\ \A k \in 1..Len(lit) : s[i + k - 1] = lit[k]

\* the character c belongs to the class: \S, \w, \d or \s
EnClase(c, clase) ==
    CASE clase = "S" -> ~EsEspacio(c)
      [] clase = "w" -> EsW(c)
      [] clase = "d" -> c \in Digitos
      [] clase = "s" -> EsEspacio(c)
      [] OTHER -> FALSE

\* length of the longest run of characters of the class from s[i]
RECURSIVE Racha(_, _, _)
Racha(s, i, clase) ==
    IF i <= Len(s) /\ EnClase(s[i], clase) THEN 1 + Racha(s, i + 1, clase) ELSE 0

\* length of a match made of a prefix and a run that must not be empty
LargoTras(prefijo, racha) == IF racha > 0 THEN prefijo + racha ELSE 0

\* length of the match of a pattern of limpiar_texto at position i, 0 if none
LargoMatch(pat, s, i) ==
    CASE pat = "url" ->
            \* http\S+|www\.\S+
            IF EmpiezaCon(s, i, <<"h","t","t","p">>) \/ EmpiezaCon(s, i, <<"w","w","w",".">>)
            THEN LargoTras(4, Racha(s, i + 4, "S"))
            ELSE 0
      [] pat = "arroba" ->
            \* [@#]\w+
            IF s[i] \in {"@", "#"} THEN LargoTras(1, Racha(s, i + 1, "w")) ELSE 0
      [] pat = "digitos" -> Racha(s, i, "d")           \* \d+
      [] pat = "noalfabeto" -> IF EsAlfabeto(s[i]) THEN 0 ELSE 1
      [] pat = "espacios" -> Racha(s, i, "s")          \* \s+
      [] OTHER -> 0

\* re.sub(pat, " ", s) from position i, n being the length of the match at
\* i: leftmost matches, left to right, each replaced by " "
RECURSIVE ReSub(_, _, _)
ReSubPaso(pat, s, i, n) ==
    IF n > 0 THEN <<" ">> \o ReSub(pat, s, i + n)
    ELSE <<s[i]>> \o ReSub(pat, s, i + 1)

ReSub(pat, s, i) ==
    IF i > Len(s) THEN <<>> ELSE ReSubPaso(pat, s, i, LargoMatch(pat, s, i))

\* str.strip()
RECURSIVE QuitarIzq(_)
QuitarIzq(s) ==
    IF s # <<>> /\ EsEspacio(Head(s)) THEN QuitarIzq(Tail(s)) ELSE s

RECURSIVE QuitarDer(_)
QuitarDer(s) ==
    IF s # <<>> /\ EsEspacio(s[Len(s)]) THEN QuitarDer(SubSeq(s, 1, Len(s) - 1)) ELSE s

Strip(s) == QuitarDer(QuitarIzq(s))

\* str.split(): the maximal runs of non-whitespace characters
RECURSIVE Split(_)
SplitPalabra(t, n) == <<SubSeq(t, 1, n)>> \o Split(SubSeq(t, n + 1, Len(t)))

SplitDesde(t) == IF t = <<>> THEN <<>> ELSE SplitPalabra(t, Racha(t, 1, "S"))

Split(s) == SplitDesde(QuitarIzq(s))

limpiar_texto(texto) ==
    Strip(ReSub("espacios",
        unidecode(ReSub("noalfabeto",
            ReSub("digitos",
                ReSub("arroba",
                    ReSub("url", MapChars(texto, Lower), 1), 1), 1), 1)), 1))

(***************************************************************************)
(* Python values: None is <<>> and a present value x is <<x>>; a dict (and *)
(* a Counter) is the sequence of its <<key, value>> pairs in insertion     *)
(* order, each key once.                                                   *)
(***************************************************************************)
None == <<>>

Some(x) == <<x>>

DictKeys(d) == [i \in DOMAIN d |-> d[i][1]]

DictValues(d) == [i \in DOMAIN d |-> d[i][2]]

DictHas(d, k) == \E i \in DOMAIN d : d[i][1] = k

\* d.get(k, default)
DictGet(d, k, default) ==
    IF DictHas(d, k) THEN d[CHOOSE i \in DOMAIN d : d[i][1] = k][2] ELSE default

\* d[k] = v
DictSet(d, k, v) ==
    IF DictHas(d, k)
    THEN [i \in DOMAIN d |-> IF d[i][1] = k THEN <<k, v>> ELSE d[i]]
    ELSE Append(d, <<k, v>>)

\* the dict of a sequence of <<key, value>> pairs, set one after the other
RECURSIVE DictDe(_)
DictDe(pares) ==
    IF pares = <<>> THEN <<>>
    ELSE LET n == Len(pares)
         IN DictSet(DictDe(SubSeq(pares, 1, n - 1)), pares[n][1], pares[n][2])

\* a variant of Suma that takes the last element
UltimoSumando(s) == IF s = <<>> THEN 0 ELSE s[Len(s)]

\* sum() of a sequence of integers
RECURSIVE Suma(_)
Suma(s) == IF s = <<>> THEN 0 ELSE Head(s) + Suma(Tail(s))

Min2(a, b) == IF a <= b THEN a ELSE b

\* a variant of Minimo that takes the first element
PrimerElemento(s) == s[1]

\* min() of a non-empty sequence of integers
RECURSIVE Minimo(_)
Minimo(s) == IF Len(s) = 1 THEN s[1] ELSE Min2(Head(s), Minimo(Tail(s)))

\* c[p] += 1 on a Counter
Incrementar(c, p) == DictSet(c, p, DictGet(c, p, 0) + 1)

\* collections.Counter(palabras)
RECURSIVE Counter(_)
Counter(palabras) ==
    IF palabras = <<>> THEN <<>>
    ELSE Incrementar(Counter(SubSeq(palabras, 1, Len(palabras) - 1)),
                     palabras[Len(palabras)])

\* s[:n]
Primeros(s, n) == SubSeq(s, 1, IF Len(s) < n THEN Len(s) ELSE n)

(***************************************************************************)
(* Mention counting (src/analisis_core.py, lines 86-125)                   *)
(***************************************************************************)
MaxTerminosGrupo == 5

RECURSIVE TerminosNoVacios(_)
TerminosNoVacios(g) ==
    IF g = <<>> THEN <<>>
    ELSE IF Head(g) # <<>> /\ Strip(Head(g)) # <<>>
         THEN <<Strip(Head(g))>> \o TerminosNoVacios(Tail(g))
         ELSE TerminosNoVacios(Tail(g))

\* a variant of _normalizar_grupo_terminos that does not trim: it keeps the
\* entries that are not the empty string
NoVacio(termino) == termino # <<>>

NormalizarSinRecortar(g) == Primeros(SelectSeq(g, NoVacio), MaxTerminosGrupo)

\* a variant of _normalizar_grupo_terminos without the cut of line 89
NormalizarSinLimite(g) == TerminosNoVacios(g)

_normalizar_grupo_terminos(g) == Primeros(TerminosNoVacios(g), MaxTerminosGrupo)

\* \b at position i of s (between s[i-1] and s[i])
EsLimite(s, i) ==
    LET antes == i > 1 /\ i - 1 <= Len(s) /\ EsW(s[i - 1])
        despues == i >= 1 /\ i <= Len(s) /\ EsW(s[i])
    IN antes # despues

\* a variant of CoincideFrase without the word boundaries \b
CoincideSinLimites(s, i, lit) == EmpiezaCon(s, i, lit)

\* the pattern \b + re.escape(lit) + \b matches s at position i
CoincideFrase(s, i, lit) ==
    /\ EmpiezaCon(s, i, lit)
    /\ EsLimite(s, i)
    /\ EsLimite(s, i + Len(lit))

\* len(re.findall(patron, s)): leftmost matches, the scan resuming at the
\* end of each match
RECURSIVE ContarFindall(_, _, _)
ContarFindall(s, i, lit) ==
    IF i > Len(s) THEN 0
    ELSE IF CoincideFrase(s, i, lit)
         THEN 1 + ContarFindall(s, i + Len(lit), lit)
         ELSE ContarFindall(s, i + 1, lit)

\* conteos.get(p, 0) for p in palabras_termino (lines 111-114)
ConteosPorPalabra(conteos, palabras_termino) ==
    [i \in DOMAIN palabras_termino |-> DictGet(conteos, palabras_termino[i], 0)]

\* lines 100-114, for a term whose cleaned form is not empty
ContarTerminoLimpio(texto_limpio, termino_limpio, palabras_termino, modo_c) ==
    IF palabras_termino = <<>> THEN 0
    ELSE IF modo_c = "frase_exacta" THEN ContarFindall(texto_limpio, 1, termino_limpio)
    ELSE IF modo_c = "todas_las_palabras"
         THEN Minimo(ConteosPorPalabra(Counter(Split(texto_limpio)), palabras_termino))
    ELSE Suma(ConteosPorPalabra(Counter(Split(texto_limpio)), palabras_termino))

\* a count that takes an empty cleaned term to match every word
ContarVacioComoTodo(texto_limpio, termino_limpio, modo_c) ==
    IF termino_limpio = <<>> THEN Len(Split(texto_limpio))
    ELSE ContarTerminoLimpio(texto_limpio, termino_limpio, Split(termino_limpio), modo_c)

\* lines 96-114, for the cleaned term
ContarTermino(texto_limpio, termino_limpio, modo_c) ==
    IF termino_limpio = <<>> THEN 0
    ELSE ContarTerminoLimpio(texto_limpio, termino_limpio, Split(termino_limpio), modo_c)

_contar_menciones_termino(texto_limpio, termino, modo_c) ==
    ContarTermino(texto_limpio, limpiar_texto(termino), modo_c)

\* the dict built by the loop of lines 122-125
RECURSIVE _contar_menciones_en_texto(_, _, _)
_contar_menciones_en_texto(texto_limpio, grupo, modo_c) ==
    IF grupo = <<>> THEN <<>>
    ELSE DictSet(_contar_menciones_en_texto(texto_limpio,
                                            SubSeq(grupo, 1, Len(grupo) - 1), modo_c),
                 grupo[Len(grupo)],
                 _contar_menciones_termino(texto_limpio, grupo[Len(grupo)], modo_c))

\* max(d, key=d.get): the first key, in insertion order, with the largest value
ClaveMaxima(d) ==
    d[CHOOSE i \in DOMAIN d :
        /\ \A j \in DOMAIN d : d[j][2] <= d[i][2]
        /\ \A j \in 1..(i - 1) : d[j][2] < d[i][2]][1]

\* a variant of RegistroDe without the early return of lines 244-245
RegistroSinDescarte(resultado, grupo, menciones_por_termino, menciones_totales) ==
    Some([url |-> resultado.url,
          titulo |-> resultado.titulo,
          texto |-> resultado.texto,
          fecha_publicacion |-> resultado.fecha_publicacion,
          menciones_totales_pagina |-> menciones_totales,
          menciones_por_termino |-> menciones_por_termino,
          termino_encontrado |-> menciones_por_termino[1][1],
          menciones_termino |->
              [i \in DOMAIN grupo |-> DictGet(menciones_por_termino, grupo[i], 0)]])

\* lines 243-268: the registro of a result and its counts, None when their
\* sum is zero; the fields dominio, puntaje_relevancia, profundidad, canonico
\* and palabras_clave_asociadas, which no step of the run reads back, are
\* left out
RegistroDe(resultado, grupo, menciones_por_termino, menciones_totales) ==
    IF menciones_totales = 0 THEN None
    ELSE Some([url |-> resultado.url,
               titulo |-> resultado.titulo,
               texto |-> resultado.texto,
               fecha_publicacion |-> resultado.fecha_publicacion,
               menciones_totales_pagina |-> menciones_totales,
               menciones_por_termino |-> menciones_por_termino,
               termino_encontrado |-> ClaveMaxima(menciones_por_termino),
               menciones_termino |->
                   [i \in DOMAIN grupo |-> DictGet(menciones_por_termino, grupo[i], 0)]])

\* a variant of TotalMenciones that leaves the last term of the mapping out
TotalSinUltimoTermino(menciones_por_termino) ==
    Suma(DictValues(SubSeq(menciones_por_termino, 1, Len(menciones_por_termino) - 1)))

\* sum(menciones_por_termino.values()) of line 243
TotalMenciones(menciones_por_termino) == Suma(DictValues(menciones_por_termino))

\* lines 241-268 once the counts are known
RegistroConMenciones(resultado, grupo, menciones_por_termino) ==
    RegistroDe(resultado, grupo, menciones_por_termino,
               TotalMenciones(menciones_por_termino))

_procesar_resultado(resultado, grupo, modo_c) ==
    RegistroConMenciones(resultado, grupo,
        _contar_menciones_en_texto(limpiar_texto(resultado.texto), grupo, modo_c))

(***************************************************************************)
(* Stopwords and associated words (src/analisis_core.py, lines 27-198)     *)
(***************************************************************************)
\* a part of stopwords.words("spanish") of the NLTK corpus
StopwordsNLTK ==
    { <<"e","l">>, <<"a","l">>, <<"y">>, <<"l","a">>, <<"d","e">>,
      <<"m","a'","s">>, <<"s","o","b","r","e">>, <<"t","a","m","b","i","e'","n">> }

\* what loading the corpus does: it returns the list, raises LookupError
\* and then loads after the download, raises LookupError and does so again
\* after the download, or raises another exception
CargasStopwords == {"ok", "lookup_ok", "lookup_error", "excepcion"}

NormalizarPalabra(p) == unidecode(MapChars(p, Lower))

\* a call that loads the resource whatever the cache holds
CargarSiempre(cache, carga) ==
    IF carga = "lookup_error"
    THEN [error |-> TRUE, cache |-> cache, valor |-> {}, cargas |-> 2]
    ELSE IF carga = "excepcion"
    THEN [error |-> FALSE, cache |-> Some({}), valor |-> {}, cargas |-> 1]
    ELSE LET conjunto == {NormalizarPalabra(p) : p \in StopwordsNLTK}
         IN [error |-> FALSE, cache |-> Some(conjunto), valor |-> conjunto,
             cargas |-> IF carga = "ok" THEN 1 ELSE 2]

\* the call of lines 36-50 with the cache and the outcome of the load:
\* the set returned, the cache afterwards, whether the call raised and the
\* number of calls of stopwords.words it made
asegurar_stopwords_espanol(cache, carga) ==
    IF cache # None
    THEN [error |-> FALSE, cache |-> cache, valor |-> cache[1], cargas |-> 0]
    ELSE IF carga = "lookup_error"
    THEN [error |-> TRUE, cache |-> cache, valor |-> {}, cargas |-> 2]
    ELSE IF carga = "excepcion"
    THEN [error |-> FALSE, cache |-> Some({}), valor |-> {}, cargas |-> 1]
    ELSE LET conjunto == {NormalizarPalabra(p) : p \in StopwordsNLTK}
         IN [error |-> FALSE, cache |-> Some(conjunto), valor |-> conjunto,
             cargas |-> IF carga = "ok" THEN 1 ELSE 2]

RECURSIVE _generar_palabras_limpias(_)
_generar_palabras_limpias(textos) ==
    IF textos = <<>> THEN <<>>
    ELSE Split(limpiar_texto(Head(textos))) \o _generar_palabras_limpias(Tail(textos))

\* the permutation that sorts the keys ks in descending order and keeps the
\* order of equal keys (sorted(..., reverse=True) and heapq.nlargest)
RECURSIVE PermEstableDesc(_)
PermEstableDesc(ks) ==
    IF ks = <<>> THEN <<>>
    ELSE LET n == Len(ks)
             p == PermEstableDesc(SubSeq(ks, 1, n - 1))
             k == Cardinality({j \in 1..(n - 1) : ks[j] >= ks[n]})
         IN SubSeq(p, 1, k) \o <<n>> \o SubSeq(p, k + 1, n - 1)

OrdenarDesc(s, ks) == LET p == PermEstableDesc(ks) IN [i \in DOMAIN s |-> s[p[i]]]

\* a variant of most_common that keeps the order of the counter
PrimerasDelContador(contador, n) == IF n <= 0 THEN <<>> ELSE Primeros(contador, n)

\* Counter.most_common(n)
most_common(contador, n) ==
    IF n <= 0 THEN <<>> ELSE Primeros(OrdenarDesc(contador, DictValues(contador)), n)

\* the set palabras_terminos of lines 171-176
PalabrasTerminos(grupo) ==
    UNION { {NormalizarPalabra(p) : p \in Rango(Split(limpiar_texto(grupo[i])))} :
            i \in DOMAIN grupo }

LargoMinimoPalabra == 3

RuidoTokens == { <<"a","m","p">>, <<"u","t","m">>, <<"h","t","t","p","s">>, <<"h","t","t","p">> }

\* a variant of PalabraPasaFiltro that keeps the words of the terms
PasaFiltroConTerminos(palabra_normalizada, stopwords_es, palabras_terminos) ==
    /\ ~(Len(palabra_normalizada) <= LargoMinimoPalabra)
    /\ palabra_normalizada \notin stopwords_es

\* the tests of lines 181-192: the word is kept
PalabraPasaFiltro(palabra_normalizada, stopwords_es, palabras_terminos) ==
    /\ ~(Len(palabra_normalizada) <= LargoMinimoPalabra)
    /\ palabra_normalizada \notin stopwords_es
    /\ palabra_normalizada \notin palabras_terminos
    /\ ~(palabra_normalizada # <<>> /\ \A i \in DOMAIN palabra_normalizada :
                                           palabra_normalizada[i] \in Digitos)
    /\ ~EmpiezaCon(palabra_normalizada, 1, <<"h","t","t","p">>)
    /\ palabra_normalizada \notin RuidoTokens

RECURSIVE FiltrarPalabras(_, _, _)
FiltrarPalabras(palabras, stopwords_es, palabras_terminos) ==
    IF palabras = <<>> THEN <<>>
    ELSE LET pn == NormalizarPalabra(Head(palabras))
             resto == FiltrarPalabras(Tail(palabras), stopwords_es, palabras_terminos)
         IN IF PalabraPasaFiltro(pn, stopwords_es, palabras_terminos)
            THEN <<pn>> \o resto
            ELSE resto

\* the texts of the rows with menciones_totales_pagina > 0 (lines 164-166)
RECURSIVE TextosRelevantes(_)
TextosRelevantes(paginas) ==
    IF paginas = <<>> THEN <<>>
    ELSE IF Head(paginas).menciones_totales_pagina > 0
         THEN <<Head(paginas).texto>> \o TextosRelevantes(Tail(paginas))
         ELSE TextosRelevantes(Tail(paginas))

\* contar_palabras_asociadas with the stopword cache and the outcome of a
\* load: the top table, the counter, the cache afterwards, and whether the
\* call raised
contar_palabras_asociadas(paginas_df, grupo, top_n, cache, carga) ==
    IF paginas_df = <<>>
    THEN [error |-> FALSE, cache |-> cache, top |-> <<>>, contador |-> <<>>]
    ELSE LET todas_las_palabras == _generar_palabras_limpias(TextosRelevantes(paginas_df))
             sw == asegurar_stopwords_espanol(cache, carga)
             palabras_filtradas ==
                 FiltrarPalabras(todas_las_palabras, sw.valor, PalabrasTerminos(grupo))
             contador == Counter(palabras_filtradas)
         IN IF sw.error
            THEN [error |-> TRUE, cache |-> sw.cache, top |-> <<>>, contador |-> <<>>]
            ELSE [error |-> FALSE, cache |-> sw.cache,
                  top |-> most_common(contador, top_n), contador |-> contador]

\* the set palabras_terminos of lines 215-217
PalabrasTerminosBigramas(grupo) ==
    UNION { Rango(Split(limpiar_texto(grupo[i]))) : i \in DOMAIN grupo }

\* len(p) > 2 of line 220
LargoMinimoBigrama == 2

\* the list palabras_filtradas of lines 219-221
FiltrarParaBigramas(palabras, stopwords_es, palabras_terminos) ==
    LET pasa(p) == /\ p \notin stopwords_es
                   /\ p \notin palabras_terminos
                   /\ Len(p) > LargoMinimoBigrama
    IN SelectSeq(palabras, pasa)

\* a list of bigrams without the last pair
BigramasSinUltimo(palabras_filtradas) ==
    [i \in 1..(Len(palabras_filtradas) - 2) |->
        palabras_filtradas[i] \o <<" ">> \o palabras_filtradas[i + 1]]

\* the list bigramas of lines 223-225
Bigramas(palabras_filtradas) ==
    [i \in 1..(Len(palabras_filtradas) - 1) |->
        palabras_filtradas[i] \o <<" ">> \o palabras_filtradas[i + 1]]

\* lines 226-228 for the filtered words
TablaDeBigramas(palabras_filtradas, top_n) ==
    [error |-> FALSE,
     top |-> most_common(Counter(Bigramas(palabras_filtradas)), top_n),
     bigramas |-> Bigramas(palabras_filtradas),
     palabras_filtradas |-> palabras_filtradas]

\* contar_bigramas with the stopwords the call of line 214 returned: the
\* top table, the list of bigrams and the filtered words
contar_bigramas(paginas_df, grupo, top_n, sw) ==
    IF paginas_df = <<>> \/ sw.error
    THEN [error |-> paginas_df # <<>>, top |-> <<>>, bigramas |-> <<>>,
          palabras_filtradas |-> <<>>]
    ELSE TablaDeBigramas(
             FiltrarParaBigramas(_generar_palabras_limpias(TextosRelevantes(paginas_df)),
                                 sw.valor, PalabrasTerminosBigramas(grupo)),
             top_n)

(***************************************************************************)
(* The store (src/datos_repository.py, lines 112-177).  A row's id is its  *)
(* position in its table.                                                  *)
(***************************************************************************)
BdVacia == [paginas |-> <<>>, terminos |-> <<>>, menciones |-> <<>>]

\* Python's "a or b" on optional values
O(a, b) == IF a # None THEN a ELSE b

\* a save that puts the new values over the ones the page had
GuardarSobrescribiendo(b, url, titulo, texto, fecha_publicacion) ==
    LET pagina == [url |-> url, titulo |-> titulo, texto |-> texto,
                   fecha_publicacion |-> fecha_publicacion]
    IN IF \E i \in DOMAIN b.paginas : b.paginas[i].url = url
       THEN LET i == CHOOSE j \in DOMAIN b.paginas : b.paginas[j].url = url
            IN [bd |-> [b EXCEPT !.paginas[i] = pagina], id |-> i]
       ELSE [bd |-> [b EXCEPT !.paginas = Append(@, pagina)], id |-> Len(b.paginas) + 1]

\* guardar_pagina: the store afterwards and the id returned
guardar_pagina(b, url, titulo, texto, fecha_publicacion) ==
    IF \E i \in DOMAIN b.paginas : b.paginas[i].url = url
    THEN LET i == CHOOSE j \in DOMAIN b.paginas : b.paginas[j].url = url
             pagina == b.paginas[i]
             nueva == [url |-> pagina.url,
                       titulo |-> IF pagina.titulo # <<>> THEN pagina.titulo ELSE titulo,
                       texto |-> IF pagina.texto # <<>> THEN pagina.texto ELSE texto,
                       fecha_publicacion |-> O(pagina.fecha_publicacion, fecha_publicacion)]
         IN [bd |-> [b EXCEPT !.paginas[i] = nueva], id |-> i]
    ELSE LET pagina == [url |-> url, titulo |-> titulo, texto |-> texto,
                        fecha_publicacion |-> fecha_publicacion]
         IN [bd |-> [b EXCEPT !.paginas = Append(@, pagina)], id |-> Len(b.paginas) + 1]

\* _obtener_o_crear_termino: the store afterwards and the term's id
_obtener_o_crear_termino(b, termino_texto) ==
    IF \E i \in DOMAIN b.terminos : b.terminos[i] = termino_texto
    THEN [bd |-> b, id |-> CHOOSE i \in DOMAIN b.terminos : b.terminos[i] = termino_texto]
    ELSE [bd |-> [b EXCEPT !.terminos = Append(@, termino_texto)],
          id |-> Len(b.terminos) + 1]

\* a turn of the loop that adds a mention row without looking for one
RegistrarAgregando(b, pagina_id, termino_texto, cantidad) ==
    IF cantidad <= 0 THEN b
    ELSE LET t == _obtener_o_crear_termino(b, termino_texto)
         IN [t.bd EXCEPT !.menciones =
                Append(@, [pagina_id |-> pagina_id, termino_id |-> t.id,
                           cantidad_menciones |-> cantidad])]

\* one turn of the loop of lines 159-177
RegistrarUna(b, pagina_id, termino_texto, cantidad) ==
    IF cantidad <= 0 THEN b
    ELSE LET t == _obtener_o_crear_termino(b, termino_texto)
             es(m) == m.pagina_id = pagina_id /\ m.termino_id = t.id
             ms == t.bd.menciones
         IN IF \E i \in DOMAIN ms : es(ms[i])
            THEN [t.bd EXCEPT !.menciones =
                     [i \in DOMAIN ms |->
                         IF es(ms[i])
                         THEN [pagina_id |-> pagina_id, termino_id |-> t.id,
                               cantidad_menciones |-> cantidad]
                         ELSE ms[i]]]
            ELSE [t.bd EXCEPT !.menciones =
                     Append(ms, [pagina_id |-> pagina_id, termino_id |-> t.id,
                                 cantidad_menciones |-> cantidad])]

RECURSIVE RegistrarTodas(_, _, _)
RegistrarTodas(b, pagina_id, menciones) ==
    IF menciones = <<>> THEN b
    ELSE RegistrarTodas(RegistrarUna(b, pagina_id, Head(menciones)[1], Head(menciones)[2]),
                        pagina_id, Tail(menciones))

registrar_menciones(b, pagina_id, menciones_por_termino) ==
    IF pagina_id \notin DOMAIN b.paginas THEN b
    ELSE RegistrarTodas(b, pagina_id, menciones_por_termino)

(***************************************************************************)
(* The inputs of a run                                                     *)
(***************************************************************************)
Sp == <<" ">>

el == <<"e","l">>

al == <<"a","l">>

gato == <<"g","a","t","o">>

perro == <<"p","e","r","r","o">>

subio == <<"s","u","b","i","o">>

tejado == <<"t","e","j","a","d","o">>

bajo == <<"b","a","j","o">>

sol == <<"s","o","l">>

\* " ".join(palabras)
RECURSIVE Unir(_)
Unir(palabras) ==
    IF palabras = <<>> THEN <<>>
    ELSE IF Len(palabras) = 1 THEN palabras[1]
    ELSE Head(palabras) \o Sp \o Unir(Tail(palabras))

\* the page of the scenario of the specification: two mentions of gato
TextoEscenario == Unir(<<el, gato, subio, al, tejado, <<"y">>, el, gato, bajo>>)

\* two mentions of gato
TextoGatoBajo == Unir(<<gato, bajo, gato>>)

\* three mentions of gato, one of perro, with capitals and punctuation
TextoGatoPerro == <<"G">> \o Tail(gato) \o <<",">> \o Sp \o Unir(<<gato, perro, gato>>) \o <<".">>

\* no mention of either term
TextoSinMencion == Unir(<<tejado, bajo>>)

\* the text of a page whose download failed
TextoVacio == <<>>

TextosPagina == {TextoGatoBajo, TextoGatoPerro, TextoSinMencion, TextoVacio}

\* publication dates are day numbers; the string of a date is <<"iso", d>>
FechasPagina == {None, Some(<<"iso", 1>>), Some(<<"iso", 2>>)}

Urls == <<"u1", "u2", "u3", "u4", "u5">>

MaxResultados == 2

\* the lists buscar_paginas_web can return: one result per url
ResultadosDeLargo(n) ==
    { r \in [1..n -> [url : Rango(Urls), titulo : {<<"T">>}, texto : TextosPagina,
                      fecha_publicacion : FechasPagina]] :
        \A i \in 1..n : r[i].url = Urls[i] }

ResultadosPosibles == UNION { ResultadosDeLargo(n) : n \in 0..MaxResultados }

GruposEntrada ==
    { <<Sp, <<>>>>,
      <<gato>>,
      <<Sp \o gato \o Sp, perro>>,
      <<gato, <<>>, gato>> }

ModosEntrada == {"frase_exacta", "cualquiera", "otro"}

\* a valid range and one with fecha_desde after fecha_hasta
RangosEntrada == { <<2, 3>>, <<3, 2>> }

Entradas ==
    [grupo_terminos : GruposEntrada,
     rango : RangosEntrada,
     profundidad : {3},
     modo_coincidencia : ModosEntrada,
     top_n_palabras : {2},
     incluir_paginas_sin_fecha : BOOLEAN]

FechaDesde(e) == Some(<<"iso", e.rango[1]>>)

FechaHasta(e) == Some(<<"iso", e.rango[2]>>)

(***************************************************************************)
(* analizar_menciones_web (src/analisis_core.py, lines 271-434)            *)
(***************************************************************************)
MODOS_COINCIDENCIA_VALIDOS == {"frase_exacta", "todas_las_palabras", "cualquiera"}

\* PROFUNDIDAD_OPCIONES of src/fuentes_web.py: its keys are the integers 1..5.
\* A key is written <<"int", n>> or <<"str", s>>.
PROFUNDIDAD_OPCIONES == <<60, 120, 180, 240, 300>>

ClaveEnOpciones(k) == k[1] = "int" /\ k[2] \in DOMAIN PROFUNDIDAD_OPCIONES

\* PROFUNDIDAD_OPCIONES[k]: None stands for the KeyError
OpcionesSubscript(k) ==
    IF ClaveEnOpciones(k) THEN Some(PROFUNDIDAD_OPCIONES[k[2]]) ELSE None

\* PROFUNDIDAD_OPCIONES.get(k, defecto)
OpcionesGet(k, defecto) ==
    IF ClaveEnOpciones(k) THEN PROFUNDIDAD_OPCIONES[k[2]] ELSE defecto

\* pd.to_datetime(cadena, errors="coerce"): the day of an ISO string, NaT
\* (None) for any other string
AFecha(cadena) ==
    IF Len(cadena) = 2 /\ cadena[1] = "iso" THEN Some(cadena[2]) ELSE None

\* date().isoformat()
IsoFormat(d) == <<"iso", d>>

SinFecha == <<"sin_fecha">>

parsear_fecha_publicacion(fecha_str) ==
    IF fecha_str = None THEN None ELSE AFecha(fecha_str[1])

Pendiente == [tipo |-> "pendiente"]

Retorno(paginas, top_palabras, resumen) ==
    [tipo |-> "retorno", df_paginas |-> paginas, df_top_palabras |-> top_palabras,
     resumen |-> resumen]

Excepcion(nombre) == [tipo |-> nombre]

Inactivo == [nombre |-> "ninguna"]

Init ==
    /\ pc = "inicio"
    /\ entrada \in Entradas
    /\ grupo_terminos = <<>>
    /\ modo = "frase_exacta"
    /\ resultados_web = <<>>
    /\ idx = 0
    /\ registros = <<>>
    /\ df_paginas = <<>>
    /\ df_top_palabras = <<>>
    /\ contadores = <<>>
    /\ retorno = Pendiente
    /\ llamadas_busqueda = 0
    /\ bd = BdVacia
    /\ _stopwords_es = None
    /\ fn = Inactivo

\* lines 284-289: inicializar_bd, the normalised group, the early return of
\* an empty group, the mode
Iniciar ==
    /\ pc = "inicio"
    /\ LET g == _normalizar_grupo_terminos(entrada.grupo_terminos)
       IN /\ grupo_terminos' = g
          /\ IF g = <<>>
             THEN /\ retorno' = Retorno(<<>>, <<>>, <<>>)
                  /\ pc' = "fin"
                  /\ modo' = modo
             ELSE /\ modo' = IF entrada.modo_coincidencia \in MODOS_COINCIDENCIA_VALIDOS
                             THEN entrada.modo_coincidencia
                             ELSE "frase_exacta"
                  /\ pc' = "buscar"
                  /\ retorno' = retorno
    /\ UNCHANGED <<entrada, resultados_web, idx, registros, df_paginas, df_top_palabras,
                   contadores, llamadas_busqueda, bd, _stopwords_es, fn>>

\* lines 291-299: the search collaborator returns its list
Buscar ==
    /\ pc = "buscar"
    /\ resultados_web' \in ResultadosPosibles
    /\ llamadas_busqueda' = llamadas_busqueda + 1
    /\ registros' = <<>>
    /\ idx' = 1
    /\ pc' = "procesar"
    /\ UNCHANGED <<entrada, grupo_terminos, modo, df_paginas, df_top_palabras,
                   contadores, retorno, bd, _stopwords_es, fn>>

\* lines 300-303: a result without mentions is skipped
DescartarResultado ==
    /\ pc = "procesar"
    /\ idx <= Len(resultados_web)
    /\ _procesar_resultado(resultados_web[idx], grupo_terminos, modo) = None
    /\ idx' = idx + 1
    /\ UNCHANGED <<pc, entrada, grupo_terminos, modo, resultados_web, registros,
                   df_paginas, df_top_palabras, contadores, retorno,
                   llamadas_busqueda, bd, _stopwords_es, fn>>

\* the registro after lines 305-310
ConFecha(registro) ==
    LET fecha_publicacion_dt == parsear_fecha_publicacion(registro.fecha_publicacion)
    IN [url |-> registro.url,
        titulo |-> registro.titulo,
        texto |-> registro.texto,
        fecha_publicacion_dt |-> fecha_publicacion_dt,
        fecha_publicacion |-> IF fecha_publicacion_dt # None
                              THEN IsoFormat(fecha_publicacion_dt[1])
                              ELSE SinFecha,
        menciones_totales_pagina |-> registro.menciones_totales_pagina,
        menciones_por_termino |-> registro.menciones_por_termino,
        termino_encontrado |-> registro.termino_encontrado,
        menciones_termino |-> registro.menciones_termino]

\* lines 305-316 for the registro of a result with mentions: the store and
\* the list registros afterwards
guardar_registro(b, regs, registro_sin_fecha) ==
    LET registro == ConFecha(registro_sin_fecha)
        g == guardar_pagina(b, registro.url, registro.titulo, registro.texto,
                            registro.fecha_publicacion_dt)
    IN [bd |-> registrar_menciones(g.bd, g.id, registro.menciones_por_termino),
        registros |-> Append(regs, registro)]

\* lines 300-316: a result with mentions is dated, saved and appended
GuardarResultado ==
    /\ pc = "procesar"
    /\ idx <= Len(resultados_web)
    /\ _procesar_resultado(resultados_web[idx], grupo_terminos, modo) # None
    /\ bd' = guardar_registro(bd, registros,
                 _procesar_resultado(resultados_web[idx], grupo_terminos, modo)[1]).bd
    /\ registros' = guardar_registro(bd, registros,
                 _procesar_resultado(resultados_web[idx], grupo_terminos, modo)[1]).registros
    /\ idx' = idx + 1
    /\ UNCHANGED <<pc, entrada, grupo_terminos, modo, resultados_web, df_paginas,
                   df_top_palabras, contadores, retorno, llamadas_busqueda,
                   _stopwords_es, fn>>

\* lines 312-314 with a storage failure inside guardar_pagina: session_scope
\* rolls the transaction back and the SQLAlchemyError ends the run
FalloAlGuardarPagina ==
    /\ pc = "procesar"
    /\ idx <= Len(resultados_web)
    /\ _procesar_resultado(resultados_web[idx], grupo_terminos, modo) # None
    /\ retorno' = Excepcion("SQLAlchemyError")
    /\ pc' = "fin"
    /\ UNCHANGED <<entrada, grupo_terminos, modo, resultados_web, idx, registros,
                   df_paginas, df_top_palabras, contadores, llamadas_busqueda, bd,
                   _stopwords_es, fn>>

\* the store after guardar_pagina of lines 312-314 has committed the page
PaginaGuardada(b, registro_sin_fecha) ==
    guardar_pagina(b, ConFecha(registro_sin_fecha).url, ConFecha(registro_sin_fecha).titulo,
                   ConFecha(registro_sin_fecha).texto,
                   ConFecha(registro_sin_fecha).fecha_publicacion_dt).bd

\* line 315 with a storage failure inside registrar_menciones: the
\* transaction of guardar_pagina is already committed, the one of
\* registrar_menciones is rolled back and the SQLAlchemyError ends the run
FalloAlRegistrarMenciones ==
    /\ pc = "procesar"
    /\ idx <= Len(resultados_web)
    /\ _procesar_resultado(resultados_web[idx], grupo_terminos, modo) # None
    /\ bd' = PaginaGuardada(bd, _procesar_resultado(resultados_web[idx],
                                                     grupo_terminos, modo)[1])
    /\ retorno' = Excepcion("SQLAlchemyError")
    /\ pc' = "fin"
    /\ UNCHANGED <<entrada, grupo_terminos, modo, resultados_web, idx, registros,
                   df_paginas, df_top_palabras, contadores, llamadas_busqueda,
                   _stopwords_es, fn>>

\* the resumen of lines 320-341
ResumenVacio ==
    [total_paginas_consultadas |-> Len(resultados_web),
     paginas_con_menciones |-> 0,
     menciones_totales_grupo |-> 0,
     menciones_por_termino |-> DictDe([i \in DOMAIN grupo_terminos |-> <<grupo_terminos[i], 0>>]),
     promedio_menciones_por_pagina |-> <<0, 1>>,
     paginas_top_mostradas |-> 0,
     paginas_antes_filtro_fecha |-> 0,
     paginas_despues_filtro_fecha |-> 0,
     paginas_sin_fecha |-> 0,
     paginas_excluidas_por_fecha |-> 0,
     paginas_en_rango_fecha |-> 0]

\* lines 318-342: the table of the registros; without any, the empty result
CrearDataFrame ==
    /\ pc = "procesar"
    /\ idx > Len(resultados_web)
    /\ df_paginas' = registros
    /\ IF registros = <<>>
       THEN /\ retorno' = Retorno(<<>>, <<>>, ResumenVacio)
            /\ pc' = "fin"
       ELSE /\ retorno' = retorno
            /\ pc' = "filtrar"
    /\ UNCHANGED <<entrada, grupo_terminos, modo, resultados_web, idx, registros,
                   df_top_palabras, contadores, llamadas_busqueda, bd, _stopwords_es, fn>>

Desconocida == <<"Desconocida">>

\* the row is inside the range (mask_rango, lines 352-357)
EnRango(fila, fecha_desde_dt, fecha_hasta_dt) ==
    /\ fila.fecha_publicacion_dt # None
    /\ fecha_desde_dt # None => fila.fecha_publicacion_dt[1] >= fecha_desde_dt[1]
    /\ fecha_hasta_dt # None => fila.fecha_publicacion_dt[1] <= fecha_hasta_dt[1]

\* lines 344-374 on the table df, for the arguments e: the filtered table
\* and the counters
filtrar_por_fecha(df, e) ==
    LET fechada == [i \in DOMAIN df |->
                       [df[i] EXCEPT !.fecha_publicacion_dt = AFecha(df[i].fecha_publicacion)]]
        fecha_desde_dt == IF FechaDesde(e) # None THEN AFecha(FechaDesde(e)[1]) ELSE None
        fecha_hasta_dt == IF FechaHasta(e) # None THEN AFecha(FechaHasta(e)[1]) ELSE None
        mask_rango(fila) == EnRango(fila, fecha_desde_dt, fecha_hasta_dt)
        mask_final(fila) ==
            IF e.incluir_paginas_sin_fecha
            THEN mask_rango(fila) \/ fila.fecha_publicacion_dt = None
            ELSE mask_rango(fila)
        sin_fecha(fila) == fila.fecha_publicacion_dt = None
        filtrada == SelectSeq(fechada, mask_final)
        final == [i \in DOMAIN filtrada |->
                     [filtrada[i] EXCEPT !.fecha_publicacion =
                         IF filtrada[i].fecha_publicacion_dt # None
                         THEN IsoFormat(filtrada[i].fecha_publicacion_dt[1])
                         ELSE Desconocida]]
    IN [df |-> final,
        contadores |->
            [total_antes_filtro |-> Len(df),
             paginas_en_rango |-> Len(SelectSeq(fechada, mask_rango)),
             paginas_sin_fecha |-> Len(SelectSeq(final, sin_fecha)),
             paginas_despues_filtro |-> Len(final),
             paginas_excluidas |-> Len(df) - Len(final)]]

\* lines 344-385: the date filter and its counters
FiltrarFechas ==
    /\ pc = "filtrar"
    /\ LET f == filtrar_por_fecha(df_paginas, entrada)
       IN /\ df_paginas' = f.df
          /\ contadores' = f.contadores
    /\ pc' = "ordenar"
    /\ UNCHANGED <<entrada, grupo_terminos, modo, resultados_web, idx, registros,
                   df_top_palabras, retorno, llamadas_busqueda, bd, _stopwords_es, fn>>

\* df.sort_values(by="menciones_totales_pagina", ascending=False): the sort
\* of a table of at most 16 rows is an insertion sort, which keeps the order
\* of equal rows
sort_values(df) ==
    OrdenarDesc(df, [i \in DOMAIN df |-> df[i].menciones_totales_pagina])

\* line 387
Ordenar ==
    /\ pc = "ordenar"
    /\ df_paginas' = sort_values(df_paginas)
    /\ pc' = "palabras"
    /\ UNCHANGED <<entrada, grupo_terminos, modo, resultados_web, idx, registros,
                   df_top_palabras, contadores, retorno, llamadas_busqueda, bd,
                   _stopwords_es, fn>>

\* line 389: contar_palabras_asociadas, which loads the stopwords when the
\* cache is empty; a LookupError of the second load is not caught
PalabrasAsociadas ==
    /\ pc = "palabras"
    /\ \E carga \in CargasStopwords :
          LET r == contar_palabras_asociadas(df_paginas, grupo_terminos,
                                             entrada.top_n_palabras, _stopwords_es, carga)
          IN /\ _stopwords_es' = r.cache
             /\ IF r.error
                THEN /\ retorno' = Excepcion("LookupError")
                     /\ pc' = "fin"
                     /\ df_top_palabras' = df_top_palabras
                ELSE /\ df_top_palabras' = r.top
                     /\ pc' = "resumen"
                     /\ retorno' = retorno
    /\ UNCHANGED <<entrada, grupo_terminos, modo, resultados_web, idx, registros,
                   df_paginas, contadores, llamadas_busqueda, bd, fn>>

\* the resumen of lines 391-432 without max_resultados_muestra
ResumenDe(df, max_resultados_muestra) ==
    LET con_menciones(fila) == fila.menciones_totales_pagina > 0
        paginas_con_menciones == Len(SelectSeq(df, con_menciones))
        menciones_totales_grupo == Suma([i \in DOMAIN df |-> df[i].menciones_totales_pagina])
        columna(k) == Suma([i \in DOMAIN df |-> df[i].menciones_termino[k]])
    IN [max_resultados_muestra |-> max_resultados_muestra,
        total_paginas_consultadas |-> Len(resultados_web),
        paginas_con_menciones |-> paginas_con_menciones,
        menciones_totales_grupo |-> menciones_totales_grupo,
        menciones_por_termino |->
            DictDe([k \in DOMAIN grupo_terminos |-> <<grupo_terminos[k], columna(k)>>]),
        promedio_menciones_por_pagina |->
            IF paginas_con_menciones > 0
            THEN <<menciones_totales_grupo, paginas_con_menciones>>
            ELSE <<0, 1>>,
        paginas_top_mostradas |-> Len(df),
        paginas_antes_filtro_fecha |-> contadores.total_antes_filtro,
        paginas_despues_filtro_fecha |-> contadores.paginas_despues_filtro,
        paginas_sin_fecha |-> contadores.paginas_sin_fecha,
        paginas_excluidas_por_fecha |-> contadores.paginas_excluidas,
        paginas_en_rango_fecha |-> contadores.paginas_en_rango]

\* lines 391-434: the default of line 415, PROFUNDIDAD_OPCIONES["Normal"], is
\* evaluated before the get of line 414
Resumir ==
    /\ pc = "resumen"
    /\ LET defecto == OpcionesSubscript(<<"str", "Normal">>)
       IN IF defecto = None
          THEN retorno' = Excepcion("KeyError")
          ELSE retorno' = Retorno(df_paginas, df_top_palabras,
                              ResumenDe(df_paginas,
                                        OpcionesGet(<<"int", entrada.profundidad>>, defecto[1])))
    /\ pc' = "fin"
    /\ UNCHANGED <<entrada, grupo_terminos, modo, resultados_web, idx, registros,
                   df_paginas, df_top_palabras, contadores, llamadas_busqueda, bd,
                   _stopwords_es, fn>>

Next ==
    \/ Iniciar
    \/ Buscar
    \/ DescartarResultado
    \/ GuardarResultado
    \/ FalloAlGuardarPagina
    \/ FalloAlRegistrarMenciones
    \/ CrearDataFrame
    \/ FiltrarFechas
    \/ Ordenar
    \/ PalabrasAsociadas
    \/ Resumir

Spec == Init /\ [][Next]_vars

(***************************************************************************)
(* Properties of a run of analizar_menciones_web                           *)
(***************************************************************************)
\* the term has a character that is not whitespace
TerminoConTexto(termino) == \E k \in DOMAIN termino : termino[k] \notin Espacios

\* the arguments pass the validation of the caller: a term group that is
\* not empty after trimming and a date range that is not inverted
ValidacionPasa ==
    /\ \E i \in DOMAIN entrada.grupo_terminos : TerminoConTexto(entrada.grupo_terminos[i])
    /\ entrada.rango[1] <= entrada.rango[2]

\* the total mentions of a search result, for the group and mode of the run
TotalDeResultado(resultado) ==
    TotalMenciones(_contar_menciones_en_texto(limpiar_texto(resultado.texto),
                                              grupo_terminos, modo))

\* the urls of the results of the run whose total mentions is zero
UrlsSinMenciones ==
    { resultados_web[i].url : i \in { j \in DOMAIN resultados_web :
                                        TotalDeResultado(resultados_web[j]) = 0 } }

UrlsDe(tabla) == { tabla[i].url : i \in DOMAIN tabla }

\* C1: once the validation passes, a run that has ended has returned a triple
\* (page table, top-word table, summary): it never ends in an uncaught error
C1_SiempreRetorna ==
    (pc = "fin" /\ ValidacionPasa) => retorno.tipo = "retorno"

\* C2: in every page record built by _procesar_resultado, the total
\* menciones_totales_pagina is the sum of the values of menciones_por_termino
C2_TotalEsSuma ==
    \A i \in DOMAIN registros :
        registros[i].menciones_totales_pagina
            = Suma(DictValues(registros[i].menciones_por_termino))

\* a record of a page that mentions two terms of the group
C2_Testigo ==
    \E i \in DOMAIN registros :
        /\ Len(registros[i].menciones_por_termino) = 2
        /\ \A k \in 1..2 : registros[i].menciones_por_termino[k][2] > 0

\* the words of a text as contar_palabras_asociadas reads them (lines
\* 149-151 and 180)
PalabrasNormalizadas(texto) ==
    MapChars(Split(limpiar_texto(texto)), NormalizarPalabra)

Ocurrencias(palabra, palabras) ==
    Cardinality({ k \in DOMAIN palabras : palabras[k] = palabra })

\* occurrences of the word in the texts of the rows of the table
OcurrenciasEnTabla(palabra, tabla) ==
    Suma([i \in DOMAIN tabla |->
             Ocurrencias(palabra, PalabrasNormalizadas(tabla[i].texto))])

\* every frequency of the word table counts the texts of the page table only
SoloCuentaTabla(top_palabras, tabla) ==
    \A k \in DOMAIN top_palabras :
        top_palabras[k][2] = OcurrenciasEnTabla(top_palabras[k][1], tabla)

\* C3: a result whose total mentions is 0 is never a row of the page table
\* (the list registros, the table built from it, the table returned), and
\* the frequencies of the top-word table count none of its words
C3_SinPaginasDeTotalCero ==
    /\ UrlsDe(registros) \cap UrlsSinMenciones = {}
    /\ UrlsDe(df_paginas) \cap UrlsSinMenciones = {}
    /\ SoloCuentaTabla(df_top_palabras, df_paginas)
    /\ retorno.tipo = "retorno" =>
          /\ UrlsDe(retorno.df_paginas) \cap UrlsSinMenciones = {}
          /\ SoloCuentaTabla(retorno.df_top_palabras, retorno.df_paginas)

\* the word table counts a word that a result without mentions also has
C3_Testigo ==
    \E k \in DOMAIN df_top_palabras : \E j \in DOMAIN resultados_web :
        /\ resultados_web[j].url \in UrlsSinMenciones
        /\ Ocurrencias(df_top_palabras[k][1],
                       PalabrasNormalizadas(resultados_web[j].texto)) > 0

\* the urls of the results the loop has reached whose total is positive
UrlsProcesadasConMenciones ==
    { resultados_web[i].url : i \in { j \in DOMAIN resultados_web :
                                        j <= idx /\ TotalDeResultado(resultados_web[j]) > 0 } }

\* C4: the store holds pages and mention rows only of results whose total
\* mentions is positive: guardar_pagina and registrar_menciones are not
\* called for a page with zero total mentions
C4_SoloGuardaConMenciones ==
    /\ UrlsDe(bd.paginas) \subseteq UrlsProcesadasConMenciones
    /\ \A m \in DOMAIN bd.menciones :
          /\ bd.menciones[m].pagina_id \in DOMAIN bd.paginas
          /\ bd.menciones[m].cantidad_menciones > 0

\* the loop has ended, a page was saved and a result had no mentions
C4_Testigo ==
    /\ pc = "procesar"
    /\ idx > Len(resultados_web)
    /\ bd.paginas # <<>>
    /\ bd.menciones # <<>>
    /\ UrlsSinMenciones # {}

\* every entry of the term group is empty or whitespace
GrupoEnBlanco ==
    \A i \in DOMAIN entrada.grupo_terminos : ~TerminoConTexto(entrada.grupo_terminos[i])

\* C5: with a term group that is empty after trimming, the run returns an
\* empty page table, an empty word table and an empty summary, and
\* buscar_paginas_web is never called
C5_GrupoVacioNoBusca ==
    GrupoEnBlanco =>
        /\ llamadas_busqueda = 0
        /\ pc \in {"inicio", "fin"}
        /\ pc = "fin" => retorno = Retorno(<<>>, <<>>, <<>>)

\* a run with a group of blank entries has ended
C5_Testigo ==
    /\ GrupoEnBlanco
    /\ entrada.grupo_terminos # <<>>
    /\ pc = "fin"

\* the page table is in descending order of menciones_totales_pagina, rows
\* of equal total in the order of the search results
OrdenadaEstable(tabla) ==
    \A i, j \in DOMAIN tabla :
        i < j =>
            \/ tabla[i].menciones_totales_pagina > tabla[j].menciones_totales_pagina
            \/ /\ tabla[i].menciones_totales_pagina = tabla[j].menciones_totales_pagina
               /\ \E a, b \in DOMAIN resultados_web :
                     /\ a < b
                     /\ resultados_web[a].url = tabla[i].url
                     /\ resultados_web[b].url = tabla[j].url

\* C7: a run that ends with pages left after the date filter returns them
\* as the page table, in descending order of menciones_totales_pagina, rows
\* of equal total in the order of the search results
C7_TablaDevueltaOrdenada ==
    (pc = "fin" /\ ValidacionPasa /\ df_paginas # <<>>) =>
        /\ retorno.tipo = "retorno"
        /\ UrlsDe(retorno.df_paginas) = UrlsDe(df_paginas)
        /\ OrdenadaEstable(retorno.df_paginas)

(***************************************************************************)
(* Calls of the pure functions.  The variable fn holds the arguments of a  *)
(* call and, once the call is made, its result; the run of the             *)
(* orchestrator is at rest.                                                *)
(***************************************************************************)
varsCorrida == <<pc, entrada, grupo_terminos, modo, resultados_web, idx, registros,
                 df_paginas, df_top_palabras, contadores, retorno, llamadas_busqueda,
                 bd, _stopwords_es>>

EnReposo ==
    /\ pc = "reposo"
    /\ entrada = <<>>
    /\ grupo_terminos = <<>>
    /\ modo = "frase_exacta"
    /\ resultados_web = <<>>
    /\ idx = 0
    /\ registros = <<>>
    /\ df_paginas = <<>>
    /\ df_top_palabras = <<>>
    /\ contadores = <<>>
    /\ retorno = Pendiente
    /\ llamadas_busqueda = 0
    /\ bd = BdVacia
    /\ _stopwords_es = None

\* the sequences of at most n elements of the set
SecuenciasHasta(conjunto, n) == UNION { [1..k -> conjunto] : k \in 0..n }

MaxEntradasGrupo == 6

letra_a == <<"a">>

EjemploSeisTerminos == <<letra_a, <<"b">>, <<"c">>, <<"d">>, <<"e">>, <<"f">>>>

\* entries of a term group: empty, blank, plain, padded with whitespace
EntradasDeGrupo == { <<>>, Sp, letra_a, <<" ", "b", "\t">> }

GruposANormalizar ==
    SecuenciasHasta(EntradasDeGrupo, MaxEntradasGrupo) \cup {EjemploSeisTerminos}

InitNormalizar ==
    /\ EnReposo
    /\ fn \in [nombre : {"_normalizar_grupo_terminos"},
               grupo_terminos : GruposANormalizar,
               hecho : {FALSE},
               resultado : {<<>>}]

LlamarNormalizar ==
    /\ fn.nombre = "_normalizar_grupo_terminos"
    /\ ~fn.hecho
    /\ fn' = [fn EXCEPT !.hecho = TRUE,
                        !.resultado = _normalizar_grupo_terminos(fn.grupo_terminos)]
    /\ UNCHANGED varsCorrida

NextNormalizar == LlamarNormalizar

SpecNormalizar == InitNormalizar /\ [][NextNormalizar]_vars

\* r is t without its leading and trailing whitespace
EsRecorte(r, t) ==
    \E a, b \in 0..Len(t) :
        /\ a + b <= Len(t)
        /\ r = SubSeq(t, a + 1, Len(t) - b)
        /\ \A k \in 1..a : t[k] \in Espacios
        /\ \A k \in (Len(t) - b + 1)..Len(t) : t[k] \in Espacios
        /\ r # <<>> => (r[1] \notin Espacios /\ r[Len(r)] \notin Espacios)

\* the positions of g whose entry is not empty or whitespace-only
PosicionesConTexto(g) == { i \in DOMAIN g : TerminoConTexto(g[i]) }

\* C6: _normalizar_grupo_terminos returns the trimmed non-empty entries in
\* their order, cut to the first 5: never more than 5 terms, never an empty
\* or whitespace-only term
C6_NormalizaGrupo ==
    (fn.nombre = "_normalizar_grupo_terminos" /\ fn.hecho) =>
        LET g == fn.grupo_terminos
            r == fn.resultado
            con_texto == PosicionesConTexto(g)
        IN /\ Len(r) <= 5
           /\ Len(r) = Min2(5, Cardinality(con_texto))
           /\ \A j \in DOMAIN r :
                 /\ TerminoConTexto(r[j])
                 /\ \E i \in con_texto :
                       /\ Cardinality({ h \in con_texto : h <= i }) = j
                       /\ EsRecorte(r[j], g[i])

\* a list with more than 5 entries to keep, one of them padded, was normalised
C6_Testigo ==
    /\ fn.nombre = "_normalizar_grupo_terminos"
    /\ fn.hecho
    /\ Cardinality(PosicionesConTexto(fn.grupo_terminos)) > 5
    /\ \E i \in DOMAIN fn.grupo_terminos :
          i <= 5 /\ fn.grupo_terminos[i] = <<" ", "b", "\t">>
    /\ Len(fn.resultado) = 5

MaxLargoTexto == 5

MaxLargoTermino == 3

AlfabetoContar == {"a", "b", " "}

\* the texts limpiar_texto leaves as they are
TextosLimpios ==
    { t \in SecuenciasHasta(AlfabetoContar, MaxLargoTexto) : limpiar_texto(t) = t }

\* terms without a letter left after cleaning: digits, punctuation, a
\* hashtag, a handle, a url, a control character
TerminosSinTexto ==
    { <<"1">>, <<"1", "2">>, <<".", ".">>, <<"#", "a">>, <<"@", "b", "1">>,
      <<"h", "t", "t", "p", "a">>, <<"NEL">> }

TerminosAContar == SecuenciasHasta(AlfabetoContar, MaxLargoTermino) \cup TerminosSinTexto

\* the modes of a direct call: the valid ones and an unknown one
ModosAContar == MODOS_COINCIDENCIA_VALIDOS \cup {"otro"}

InitContar ==
    /\ EnReposo
    /\ fn \in [nombre : {"_contar_menciones_termino"},
               texto_limpio : TextosLimpios,
               termino : TerminosAContar,
               modo : ModosAContar,
               hecho : {FALSE},
               resultado : {0}]

LlamarContar ==
    /\ fn.nombre = "_contar_menciones_termino"
    /\ ~fn.hecho
    /\ fn' = [fn EXCEPT !.hecho = TRUE,
                        !.resultado = _contar_menciones_termino(fn.texto_limpio,
                                                                fn.termino, fn.modo)]
    /\ UNCHANGED varsCorrida

NextContar == LlamarContar

SpecContar == InitContar /\ [][NextContar]_vars

\* the words of the term occupy the places i, i+1, ... of the words of the text
FraseEn(palabras_texto, palabras_termino, i) ==
    /\ i + Len(palabras_termino) - 1 <= Len(palabras_texto)
    /\ \A k \in DOMAIN palabras_termino : palabras_texto[i + k - 1] = palabras_termino[k]

\* the occurrences of the term's words as a run of whole words of the text,
\* taken from the left and not overlapping, from the word at place i
RECURSIVE OcurrenciasDeFrase(_, _, _)
OcurrenciasDeFrase(palabras_texto, palabras_termino, i) ==
    IF i > Len(palabras_texto) THEN 0
    ELSE IF FraseEn(palabras_texto, palabras_termino, i)
         THEN 1 + OcurrenciasDeFrase(palabras_texto, palabras_termino,
                                     i + Len(palabras_termino))
         ELSE OcurrenciasDeFrase(palabras_texto, palabras_termino, i + 1)

\* the call of _contar_menciones_termino was made in the mode, for a term
\* that has a word
ContadoEnModo(modo_c) ==
    /\ fn.nombre = "_contar_menciones_termino"
    /\ fn.hecho
    /\ fn.modo = modo_c
    /\ Split(limpiar_texto(fn.termino)) # <<>>

\* C9: in mode frase_exacta, for a normalised text, the result is the number
\* of occurrences of the whole normalised term between word boundaries,
\* taken from left to right and not overlapping; an occurrence inside a
\* longer word does not count
C9_FraseExacta ==
    ContadoEnModo("frase_exacta") =>
        fn.resultado = OcurrenciasDeFrase(Split(fn.texto_limpio),
                                          Split(limpiar_texto(fn.termino)), 1)

\* the term is counted once in a text that also has it inside a longer word
C9_Testigo ==
    /\ ContadoEnModo("frase_exacta")
    /\ fn.texto_limpio = <<"a", "b", " ", "a">>
    /\ fn.termino = <<"a">>
    /\ fn.resultado = 1

\* C10: in mode todas_las_palabras the result is the minimum, over the words
\* of the term, of the occurrences of the word among the words of the text:
\* no word of the term occurs less often, and the result is 0 when a word of
\* the term is absent
C10_TodasLasPalabras ==
    ContadoEnModo("todas_las_palabras") =>
        LET palabras_termino == Split(limpiar_texto(fn.termino))
            palabras_texto == Split(fn.texto_limpio)
        IN /\ \A k \in DOMAIN palabras_termino :
                 fn.resultado <= Ocurrencias(palabras_termino[k], palabras_texto)
           /\ \E k \in DOMAIN palabras_termino :
                 fn.resultado = Ocurrencias(palabras_termino[k], palabras_texto)
           /\ (\E k \in DOMAIN palabras_termino :
                  Ocurrencias(palabras_termino[k], palabras_texto) = 0)
                 => fn.resultado = 0

\* a term of two words, one twice in the text and the other once
C10_Testigo ==
    /\ ContadoEnModo("todas_las_palabras")
    /\ fn.texto_limpio = <<"a", " ", "b", " ", "a">>
    /\ fn.termino = <<"a", " ", "b">>
    /\ fn.resultado = 1

MaxPalabrasTexto == 3

MaxTopN == 3

sobre == <<"s","o","b","r","e">>

\* words the filter keeps, a word of the term group, a word of 3 letters
\* and a stopword
VocabularioPaginas == {tejado, bajo, subio, gato, sol, sobre}

\* a text with the noise token http and a word that starts with it
TextoRuido == Unir(<<<<"h","t","t","p">>, tejado, <<"h","t","t","p","s">>, sol>>)

TextosDePalabras ==
    { Unir(palabras) : palabras \in SecuenciasHasta(VocabularioPaginas, MaxPalabrasTexto) }
        \cup {TextoEscenario, TextoRuido}

\* a row of paginas_df with mentions
FilasDePalabras ==
    [texto : TextosDePalabras, menciones_totales_pagina : {1}]

\* the tables of one row
TablasDePalabras == { <<fila>> : fila \in FilasDePalabras }

InitPalabras ==
    /\ EnReposo
    /\ fn \in [nombre : {"contar_palabras_asociadas"},
               paginas_df : TablasDePalabras,
               grupo_terminos : {<<gato>>},
               top_n : 0..MaxTopN,
               hecho : {FALSE},
               resultado : {<<>>},
               contador : {<<>>}]

\* the call with the stopwords loaded at the first attempt
LlamarPalabras ==
    /\ fn.nombre = "contar_palabras_asociadas"
    /\ ~fn.hecho
    /\ fn' = [fn EXCEPT !.hecho = TRUE,
                        !.resultado = contar_palabras_asociadas(fn.paginas_df,
                                          fn.grupo_terminos, fn.top_n, None, "ok").top,
                        !.contador = contar_palabras_asociadas(fn.paginas_df,
                                          fn.grupo_terminos, fn.top_n, None, "ok").contador]
    /\ UNCHANGED varsCorrida

NextPalabras == LlamarPalabras

SpecPalabras == InitPalabras /\ [][NextPalabras]_vars

\* the filtered word stream of lines 168-193 for the arguments of the call
PalabrasFiltradasDe(paginas_df, grupo) ==
    FiltrarPalabras(_generar_palabras_limpias(TextosRelevantes(paginas_df)),
                    asegurar_stopwords_espanol(None, "ok").valor,
                    PalabrasTerminos(grupo))

\* the place of the first occurrence of the word in the stream
PrimerLugar(palabra, palabras) ==
    CHOOSE k \in DOMAIN palabras :
        /\ palabras[k] = palabra
        /\ \A h \in 1..(k - 1) : palabras[h] # palabra

\* the table is a top of the stream: at most n rows, each a word of the
\* stream with its frequency, frequencies descending, equal frequencies in
\* the order of first occurrence, no word left out with a higher frequency
\* than a word of the table
EsTopDe(top, palabras, n) ==
    /\ Len(top) <= n
    /\ \A i \in DOMAIN top :
          /\ top[i][1] \in Rango(palabras)
          /\ top[i][2] = Ocurrencias(top[i][1], palabras)
    /\ \A i, j \in DOMAIN top :
          i < j =>
              \/ top[i][2] > top[j][2]
              \/ /\ top[i][2] = top[j][2]
                 /\ PrimerLugar(top[i][1], palabras) < PrimerLugar(top[j][1], palabras)
    /\ \A palabra \in Rango(palabras) \ { top[i][1] : i \in DOMAIN top } :
          \A i \in DOMAIN top : Ocurrencias(palabra, palabras) <= top[i][2]

\* C8: the top-word table of contar_palabras_asociadas has at most top_n
\* rows, frequencies in descending order, words of equal frequency in the
\* order they were first met in the filtered word stream, and no word
\* outside the table more frequent than a word inside it
C8_TopPalabras ==
    (fn.nombre = "contar_palabras_asociadas" /\ fn.hecho) =>
        EsTopDe(fn.resultado, PalabrasFiltradasDe(fn.paginas_df, fn.grupo_terminos),
                fn.top_n)

\* a table cut to top_n rows whose most frequent word was met after a less
\* frequent one
C8_Testigo ==
    /\ fn.nombre = "contar_palabras_asociadas"
    /\ fn.hecho
    /\ fn.top_n = 2
    /\ fn.resultado = << <<bajo, 2>>, <<tejado, 1>> >>
    /\ PalabrasFiltradasDe(fn.paginas_df, fn.grupo_terminos) = <<tejado, bajo, bajo>>

\* a call of _contar_menciones_termino was made in the mode
LlamadoEnModo(modo_c) ==
    /\ fn.nombre = "_contar_menciones_termino"
    /\ fn.hecho
    /\ fn.modo = modo_c

\* C11: in mode cualquiera the result is the sum, over the word positions of
\* the term, of the occurrences of that word among the words of the text
C11_Cualquiera ==
    LlamadoEnModo("cualquiera") =>
        fn.resultado =
            Cardinality({ par \in (DOMAIN Split(limpiar_texto(fn.termino)))
                                      \X (DOMAIN Split(fn.texto_limpio)) :
                            Split(limpiar_texto(fn.termino))[par[1]]
                                = Split(fn.texto_limpio)[par[2]] })

\* a term of two words, one twice in the text and the other once
C11_Testigo ==
    /\ LlamadoEnModo("cualquiera")
    /\ fn.texto_limpio = <<"a", " ", "b", " ", "a">>
    /\ fn.termino = <<"a", " ", "b">>
    /\ fn.resultado = 3

\* C12 (direct call): with a mode outside MODOS_COINCIDENCIA_VALIDOS
\* _contar_menciones_termino returns the count it returns with frase_exacta
C12_ModoDesconocidoDirecto ==
    (\E modo_c \in ModosAContar \ MODOS_COINCIDENCIA_VALIDOS : LlamadoEnModo(modo_c)) =>
        fn.resultado = _contar_menciones_termino(fn.texto_limpio, fn.termino, "frase_exacta")

MaxLargoEntrada == 6

\* letters that spell http, a digit, a blank and the control U+0085
AlfabetoLimpiar == {"h", "t", "p", "1", " ", "NEL"}

TextosALimpiar == SecuenciasHasta(AlfabetoLimpiar, MaxLargoEntrada)

InitLimpiar ==
    /\ EnReposo
    /\ fn \in [nombre : {"limpiar_texto"},
               texto : TextosALimpiar,
               pasadas : {0},
               anterior : {<<>>},
               resultado : {<<>>}]

\* limpiar_texto on the text, and then on its own result
LlamarLimpiar ==
    /\ fn.nombre = "limpiar_texto"
    /\ fn.pasadas < 2
    /\ fn' = [fn EXCEPT !.pasadas = @ + 1,
                        !.anterior = fn.resultado,
                        !.resultado = limpiar_texto(IF fn.pasadas = 0 THEN fn.texto
                                                    ELSE fn.resultado)]
    /\ UNCHANGED varsCorrida

NextLimpiar == LlamarLimpiar

SpecLimpiar == InitLimpiar /\ [][NextLimpiar]_vars

\* C13: limpiar_texto is idempotent: a second pass over its result leaves
\* the result as it is
C13_Idempotente ==
    (fn.nombre = "limpiar_texto" /\ fn.pasadas = 2) => fn.resultado = fn.anterior

\* the words of the texts of the rows of the table that have mentions
PalabrasDeTabla(paginas_df) ==
    UNION { Rango(PalabrasNormalizadas(paginas_df[i].texto)) :
              i \in { j \in DOMAIN paginas_df : paginas_df[j].menciones_totales_pagina > 0 } }

\* the normalised words of the terms of the group
PalabrasDeGrupo(grupo) ==
    UNION { Rango(PalabrasNormalizadas(grupo[i])) : i \in DOMAIN grupo }

EsNumerica(palabra) ==
    palabra # <<>> /\ \A k \in DOMAIN palabra : palabra[k] \in Digitos

EsRuido(palabra) ==
    \/ EmpiezaCon(palabra, 1, <<"h","t","t","p">>)
    \/ palabra \in { <<"a","m","p">>, <<"u","t","m">> }

\* the call counted exactly the words of the mentioning pages that are
\* longer than the threshold, are no stopword, no word of a term, not
\* numeric and no noise token, each with its occurrences
CuentaLasQuePasan(umbral) ==
    (fn.nombre = "contar_palabras_asociadas" /\ fn.hecho) =>
        /\ \A palabra \in PalabrasDeTabla(fn.paginas_df) :
              DictHas(fn.contador, palabra) <=>
                  /\ Len(palabra) > umbral
                  /\ palabra \notin { unidecode(MapChars(p, Lower)) : p \in StopwordsNLTK }
                  /\ palabra \notin PalabrasDeGrupo(fn.grupo_terminos)
                  /\ ~EsNumerica(palabra)
                  /\ ~EsRuido(palabra)
        /\ \A k \in DOMAIN fn.contador :
              /\ fn.contador[k][1] \in PalabrasDeTabla(fn.paginas_df)
              /\ fn.contador[k][2] = OcurrenciasEnTabla(fn.contador[k][1], fn.paginas_df)

\* C14 as stated: the threshold is 2, a word of 3 letters is counted
C14_FiltroUmbralDos == CuentaLasQuePasan(2)

\* C14 amended: contar_palabras_asociadas counts a word of a mentioning page
\* only if it has more than 3 letters, is no stopword, no normalised word
\* of a term of the group, not numeric and no noise token; a word of 3
\* letters is dropped
C14_FiltroUmbralTres == CuentaLasQuePasan(3)

\* the text of the scenario with the group [gato]: gato is not counted,
\* subio, tejado and bajo are
C14_Testigo ==
    /\ fn.nombre = "contar_palabras_asociadas"
    /\ fn.hecho
    /\ fn.paginas_df[1].texto = TextoEscenario
    /\ fn.grupo_terminos = <<gato>>
    /\ ~DictHas(fn.contador, gato)
    /\ DictHas(fn.contador, tejado)
    /\ DictHas(fn.contador, bajo)

\* the result passes the date filter of the run: its date is inside the
\* range, or it has no date and pages without date are included
PasaFiltroFecha(resultado) ==
    IF resultado.fecha_publicacion = None
    THEN entrada.incluir_paginas_sin_fecha
    ELSE /\ entrada.rango[1] <= resultado.fecha_publicacion[1][2]
         /\ resultado.fecha_publicacion[1][2] <= entrada.rango[2]

\* the urls of the results with mentions that pass the date filter
UrlsEnFecha ==
    { resultados_web[i].url : i \in { j \in DOMAIN resultados_web :
                                        /\ TotalDeResultado(resultados_web[j]) > 0
                                        /\ PasaFiltroFecha(resultados_web[j]) } }

\* the total of the term over the rows of the table
TotalDeTermino(termino, tabla) ==
    Suma([i \in DOMAIN tabla |-> DictGet(tabla[i].menciones_por_termino, termino, 0)])

\* C15: a run that found pages with mentions returns as page table the
\* pages whose date is inside the range and, when pages without date are
\* included, the pages without date; the word table counts the words of
\* those pages only and the totals per term add up those pages only
C15_FiltroDeFechas ==
    (pc = "fin" /\ ValidacionPasa /\ registros # <<>>) =>
        /\ retorno.tipo = "retorno"
        /\ UrlsDe(retorno.df_paginas) = UrlsEnFecha
        /\ SoloCuentaTabla(retorno.df_top_palabras, retorno.df_paginas)
        /\ \A k \in DOMAIN retorno.resumen.menciones_por_termino :
              retorno.resumen.menciones_por_termino[k][2]
                  = TotalDeTermino(retorno.resumen.menciones_por_termino[k][1],
                                   retorno.df_paginas)

\* settings of src/config.py
crawl_profundo_max_enlaces == 20

crawl_profundidad_maxima == 5

\* enlaces_tmp[:3] of line 217
MaxEnlacesTerciarios == 3

\* hits the search library yields in one call, at most max_results of them
MaxHits == 5

ProfundidadesABuscar == {0, 1, 3, 5, 7}

\* A hit of the search library, by what the loop does with it: descartado
\* is a hit without url, already seen, outside the domain filter or with a
\* canonical address already seen (lines 154-168); enlaces_nuevos counts the
\* links of enlaces[:crawl_profundo_max_enlaces] that pass line 190 and
\* enlaces_terciarios the links of enlaces_tmp[:3] of each that pass line 220
HitsPosibles ==
    [descartado : {TRUE}, enlaces_nuevos : {0}, enlaces_terciarios : {0}]
    \cup [descartado : {FALSE},
          enlaces_nuevos : 0..crawl_profundo_max_enlaces,
          enlaces_terciarios : 0..MaxEnlacesTerciarios]

\* lines 217-238: len(resultados) after the loop over enlaces_tmp[:3]
RECURSIVE CrawlTerciario(_, _, _)
CrawlTerciario(len_resultados, max_resultados, enlaces) ==
    IF enlaces = 0 \/ len_resultados >= max_resultados
    THEN len_resultados
    ELSE CrawlTerciario(len_resultados + 1, max_resultados, enlaces - 1)

\* lines 187-238: len(resultados) after the loop over secundarios
RECURSIVE CrawlSecundario(_, _, _, _, _)
CrawlSecundario(len_resultados, max_resultados, enlaces, terciarios, profundidad_max) ==
    IF enlaces = 0 \/ len_resultados >= max_resultados
    THEN len_resultados
    ELSE CrawlSecundario(
             IF profundidad_max > 2
             THEN CrawlTerciario(len_resultados + 1, max_resultados, terciarios)
             ELSE len_resultados + 1,
             max_resultados, enlaces - 1, terciarios, profundidad_max)

\* lines 152-238: len(resultados) after one pass of the loop over the hits
PasoDeHit(len_resultados, max_resultados, crawl_extendido, profundidad_max, hit) ==
    IF hit.descartado
    THEN len_resultados
    ELSE IF crawl_extendido /\ len_resultados + 1 < max_resultados
         THEN CrawlSecundario(len_resultados + 1, max_resultados, hit.enlaces_nuevos,
                              hit.enlaces_terciarios, profundidad_max)
         ELSE len_resultados + 1

\* lines 289-291
MaxResultadosDe(profundidad) ==
    OpcionesGet(<<"int", Min2(IF profundidad > 1 THEN profundidad ELSE 1,
                              crawl_profundidad_maxima)>>,
                PROFUNDIDAD_OPCIONES[3])

InitBuscar ==
    /\ EnReposo
    /\ fn \in [nombre : {"buscar_paginas_web"},
               profundidad : ProfundidadesABuscar,
               crawl_extendido : BOOLEAN,
               fase : {"llamada"},
               max_resultados : {0},
               hits : {0},
               len_resultados : {0}]

\* buscar_paginas_web picks max_resultados and enters _buscar_ddg_iterativo
LlamarBuscar ==
    /\ fn.nombre = "buscar_paginas_web"
    /\ fn.fase = "llamada"
    /\ fn' = [fn EXCEPT !.fase = "iterando",
                        !.max_resultados = MaxResultadosDe(fn.profundidad)]
    /\ UNCHANGED varsCorrida

\* one pass of the loop of line 152 over a hit of buscador.text
ProcesarHit ==
    /\ fn.nombre = "buscar_paginas_web"
    /\ fn.fase = "iterando"
    /\ fn.hits < Min2(fn.max_resultados, MaxHits)
    /\ \E hit \in HitsPosibles :
          fn' = [fn EXCEPT !.hits = @ + 1,
                           !.len_resultados =
                               PasoDeHit(fn.len_resultados, fn.max_resultados,
                                         fn.crawl_extendido, crawl_profundidad_maxima, hit)]
    /\ UNCHANGED varsCorrida

\* the hits run out, or an exception ends the loop: lines 239-243
DevolverResultados ==
    /\ fn.nombre = "buscar_paginas_web"
    /\ fn.fase = "iterando"
    /\ fn' = [fn EXCEPT !.fase = "retorno"]
    /\ UNCHANGED varsCorrida

NextBuscar ==
    \/ LlamarBuscar
    \/ ProcesarHit
    \/ DevolverResultados

SpecBuscar == InitBuscar /\ [][NextBuscar]_vars

\* C16: the list buscar_paginas_web returns is never longer than
\* PROFUNDIDAD_OPCIONES[clamp(profundidad, 1, 5)], with crawl_extendido off
\* and on
C16_TopeDeResultados ==
    (fn.nombre = "buscar_paginas_web" /\ fn.fase = "retorno") =>
        fn.len_resultados <= PROFUNDIDAD_OPCIONES[
            IF fn.profundidad < 1 THEN 1
            ELSE IF fn.profundidad > 5 THEN 5 ELSE fn.profundidad]

\* calls of asegurar_stopwords_espanol made one after another in a process
MaxLlamadasStopwords == 4

varsSinStopwords == <<pc, entrada, grupo_terminos, modo, resultados_web, idx, registros,
                      df_paginas, df_top_palabras, contadores, retorno,
                      llamadas_busqueda, bd>>

InitStopwords ==
    /\ EnReposo
    /\ fn = [nombre |-> "asegurar_stopwords_espanol", historial |-> <<>>]

\* one call: historial keeps, per call, the outcome of the load, what the
\* call did and the cache it left
LlamarStopwords ==
    /\ fn.nombre = "asegurar_stopwords_espanol"
    /\ Len(fn.historial) < MaxLlamadasStopwords
    /\ \E carga \in CargasStopwords :
          LET r == asegurar_stopwords_espanol(_stopwords_es, carga)
          IN /\ _stopwords_es' = r.cache
             /\ fn' = [fn EXCEPT !.historial =
                           Append(@, [carga |-> carga, error |-> r.error,
                                      valor |-> r.valor, cargas |-> r.cargas,
                                      cache |-> r.cache])]
    /\ UNCHANGED varsSinStopwords

NextStopwords == LlamarStopwords

SpecStopwords == InitStopwords /\ [][NextStopwords]_vars

LlamadasStopwords ==
    IF fn.nombre = "asegurar_stopwords_espanol" THEN fn.historial ELSE <<>>

\* C17: whatever goes wrong when the stopwords are loaded, the failed
\* retry after the download included, the call returns the empty set and
\* does not raise
C17_FalloDaConjuntoVacio ==
    \A i \in DOMAIN LlamadasStopwords :
        LET llamada == LlamadasStopwords[i]
        IN (llamada.cargas > 0 /\ llamada.carga \in {"lookup_error", "excepcion"}) =>
               (~llamada.error /\ llamada.valor = {})

\* C18: once a call has returned, the cache is not None and every later
\* call returns the same set, loads nothing and leaves the cache as it was
C18_CargaUnaVez ==
    \A i \in DOMAIN LlamadasStopwords :
        ~LlamadasStopwords[i].error =>
            /\ LlamadasStopwords[i].cache # None
            /\ \A j \in DOMAIN LlamadasStopwords :
                  j > i => /\ ~LlamadasStopwords[j].error
                           /\ LlamadasStopwords[j].valor = LlamadasStopwords[i].valor
                           /\ LlamadasStopwords[j].cargas = 0
                           /\ LlamadasStopwords[j].cache = LlamadasStopwords[i].cache

\* a degraded empty set is kept: a later call whose load would succeed
\* still returns it
C18_Testigo ==
    /\ Len(LlamadasStopwords) = 2
    /\ LlamadasStopwords[1].carga = "excepcion"
    /\ LlamadasStopwords[1].valor = {}
    /\ LlamadasStopwords[2].carga = "ok"
    /\ LlamadasStopwords[2].valor = {}
    /\ _stopwords_es = Some({})

\* calls of the store made one after another
MaxLlamadasBd == 3

\* page ids a caller passes: the last is the id of no page
IdsDePagina == 1..(Cardinality({"u1", "u2"}) + 1)

CantidadesBd == {0, 1, 2}

UrlsBd == {"u1", "u2"}

TitulosBd == {<<>>, gato, perro}

FechasBd == {None, Some(1), Some(2)}

TerminosBd == {gato, perro}

\* dicts of term to count, in every insertion order
MencionesBd ==
    { m \in SecuenciasHasta(TerminosBd \X CantidadesBd, Cardinality(TerminosBd)) :
        \A i, j \in DOMAIN m : m[i][1] = m[j][1] => i = j }

LlamadasGuardar ==
    [op : {"guardar_pagina"}, url : UrlsBd, titulo : TitulosBd, texto : {TextoGatoBajo},
     fecha_publicacion : FechasBd]

LlamadasRegistrar ==
    [op : {"registrar_menciones"}, pagina_id : IdsDePagina,
     menciones_por_termino : MencionesBd]

varsSinBd == <<pc, entrada, grupo_terminos, modo, resultados_web, idx, registros,
               df_paginas, df_top_palabras, contadores, retorno, llamadas_busqueda,
               _stopwords_es>>

\* fn keeps the last call, the store before it, the id it returned, the id
\* first returned for each url and whether the call repeats the one before
InitBd ==
    /\ EnReposo
    /\ fn = [nombre |-> "bd", llamadas |-> 0, ultima |-> <<>>, antes |-> BdVacia,
             id |-> None, ids |-> <<>>, repetida |-> FALSE]

LlamarGuardarPagina ==
    /\ fn.nombre = "bd"
    /\ fn.llamadas < MaxLlamadasBd
    /\ \E llamada \in LlamadasGuardar :
          LET g == guardar_pagina(bd, llamada.url, llamada.titulo, llamada.texto,
                                  llamada.fecha_publicacion)
          IN /\ bd' = g.bd
             /\ fn' = [fn EXCEPT !.llamadas = @ + 1,
                                 !.ultima = <<llamada>>,
                                 !.antes = bd,
                                 !.id = Some(g.id),
                                 !.ids = IF DictHas(@, llamada.url) THEN @
                                         ELSE DictSet(@, llamada.url, g.id),
                                 !.repetida = (fn.ultima = <<llamada>>)]
    /\ UNCHANGED varsSinBd

LlamarRegistrarMenciones ==
    /\ fn.nombre = "bd"
    /\ fn.llamadas < MaxLlamadasBd
    /\ \E llamada \in LlamadasRegistrar :
          /\ bd' = registrar_menciones(bd, llamada.pagina_id, llamada.menciones_por_termino)
          /\ fn' = [fn EXCEPT !.llamadas = @ + 1,
                              !.ultima = <<llamada>>,
                              !.antes = bd,
                              !.id = None,
                              !.repetida = (fn.ultima = <<llamada>>)]
    /\ UNCHANGED varsSinBd

NextBd ==
    \/ LlamarGuardarPagina
    \/ LlamarRegistrarMenciones

SpecBd == InitBd /\ [][NextBd]_vars

LlamadaBd == fn.ultima[1]

TrasGuardar == fn.nombre = "bd" /\ fn.ultima # <<>> /\ LlamadaBd.op = "guardar_pagina"

TrasRegistrar == fn.nombre = "bd" /\ fn.ultima # <<>> /\ LlamadaBd.op = "registrar_menciones"

FilasDeUrl(b, url) == { i \in DOMAIN b.paginas : b.paginas[i].url = url }

\* C19: guardar_pagina is an upsert by url: one row per url saved, the
\* same id for every call with a url, no row ever deleted, and a title or
\* date that was known stays, while one that was unknown is filled in
C19_UpsertPorUrl ==
    fn.nombre = "bd" =>
        /\ \A i \in DOMAIN fn.ids : FilasDeUrl(bd, fn.ids[i][1]) = {fn.ids[i][2]}
        /\ \A i \in DOMAIN bd.paginas : DictHas(fn.ids, bd.paginas[i].url)
        /\ TrasGuardar => fn.id = Some(DictGet(fn.ids, LlamadaBd.url, 0))
        /\ \A i \in DOMAIN fn.antes.paginas :
              /\ i \in DOMAIN bd.paginas
              /\ bd.paginas[i].url = fn.antes.paginas[i].url
              /\ fn.antes.paginas[i].titulo # <<>> =>
                     bd.paginas[i].titulo = fn.antes.paginas[i].titulo
              /\ fn.antes.paginas[i].fecha_publicacion # None =>
                     bd.paginas[i].fecha_publicacion = fn.antes.paginas[i].fecha_publicacion
              /\ (TrasGuardar /\ LlamadaBd.url = bd.paginas[i].url) =>
                     /\ fn.antes.paginas[i].titulo = <<>> =>
                            bd.paginas[i].titulo = LlamadaBd.titulo
                     /\ fn.antes.paginas[i].fecha_publicacion = None =>
                            bd.paginas[i].fecha_publicacion = LlamadaBd.fecha_publicacion
              /\ ~(TrasGuardar /\ LlamadaBd.url = bd.paginas[i].url) =>
                     bd.paginas[i] = fn.antes.paginas[i]

\* a second save of a url with another title and a date: the title stays,
\* the date that was unknown is filled in, the id is the same
C19_Testigo ==
    /\ TrasGuardar
    /\ LlamadaBd.url = "u1" /\ LlamadaBd.titulo = perro
    /\ LlamadaBd.fecha_publicacion = Some(2)
    /\ Len(fn.antes.paginas) = 2
    /\ fn.antes.paginas[2].url = "u1"
    /\ fn.antes.paginas[2].titulo = gato
    /\ fn.antes.paginas[2].fecha_publicacion = None
    /\ Len(bd.paginas) = 2
    /\ bd.paginas[2].titulo = gato
    /\ bd.paginas[2].fecha_publicacion = Some(2)
    /\ fn.id = Some(2)

\* C20: registrar_menciones is idempotent: the same call made again leaves
\* the store as the first left it; there is at most one mention row per
\* page and term and one term row per text; a page id that does not exist
\* changes nothing
C20_RegistrarIdempotente ==
    fn.nombre = "bd" =>
        /\ (TrasRegistrar /\ fn.repetida) => bd = fn.antes
        /\ \A i, j \in DOMAIN bd.menciones :
              (/\ bd.menciones[i].pagina_id = bd.menciones[j].pagina_id
               /\ bd.menciones[i].termino_id = bd.menciones[j].termino_id) => i = j
        /\ \A i, j \in DOMAIN bd.terminos : bd.terminos[i] = bd.terminos[j] => i = j
        /\ (TrasRegistrar /\ LlamadaBd.pagina_id \notin DOMAIN fn.antes.paginas) =>
              bd = fn.antes

\* the same two counts recorded twice for the one page
C20_Testigo ==
    /\ TrasRegistrar
    /\ fn.repetida
    /\ LlamadaBd.pagina_id = 1
    /\ LlamadaBd.menciones_por_termino = << <<perro, 2>>, <<gato, 1>> >>
    /\ bd.terminos = <<perro, gato>>
    /\ Len(bd.menciones) = 2
    /\ bd.menciones[1].cantidad_menciones = 2
    /\ bd.menciones[2].cantidad_menciones = 1

\* the pages of the store that have no mention row
PaginasSinMenciones ==
    { i \in DOMAIN bd.paginas : \A m \in DOMAIN bd.menciones : bd.menciones[m].pagina_id # i }

\* C21: a page and its mention rows are committed together: whatever
\* storage failure ends the run, every page in the store has its mention
\* rows
C21_PaginaConSusMenciones == PaginasSinMenciones = {}

\* the urls of the results whose fetch or parse failed: their text is empty
UrlsFallidas ==
    { resultados_web[i].url : i \in { j \in DOMAIN resultados_web :
                                        resultados_web[j].texto = <<>> } }

UrlsConMenciones ==
    { resultados_web[i].url : i \in { j \in DOMAIN resultados_web :
                                        TotalDeResultado(resultados_web[j]) > 0 } }

\* C22: a page whose fetch or parse failed has empty text and total 0; it
\* is no row of registros, of the page table or of the store, the run does
\* not end at it, the results after it are processed, and a summary that is
\* returned counts it in total_paginas_consultadas
C22_PaginaFallidaSeSalta ==
    /\ UrlsFallidas \subseteq UrlsSinMenciones
    /\ UrlsDe(registros) \cap UrlsFallidas = {}
    /\ UrlsDe(df_paginas) \cap UrlsFallidas = {}
    /\ UrlsDe(bd.paginas) \cap UrlsFallidas = {}
    /\ SoloCuentaTabla(df_top_palabras, df_paginas)
    /\ (pc = "fin" /\ idx \in DOMAIN resultados_web) =>
           resultados_web[idx].url \notin UrlsFallidas
    /\ (pc = "procesar" /\ idx > Len(resultados_web)) =>
           UrlsDe(registros) = UrlsConMenciones
    /\ (retorno.tipo = "retorno" /\ retorno.resumen # <<>>) =>
           /\ retorno.resumen.total_paginas_consultadas = Len(resultados_web)
           /\ UrlsDe(retorno.df_paginas) \cap UrlsFallidas = {}

\* the first page failed, the loop went on and saved the second
C22_Testigo ==
    /\ pc = "procesar"
    /\ idx > Len(resultados_web)
    /\ Len(resultados_web) = 2
    /\ resultados_web[1].texto = <<>>
    /\ UrlsDe(registros) = {resultados_web[2].url}
    /\ UrlsDe(bd.paginas) = {resultados_web[2].url}
    /\ bd.menciones # <<>>

RangoInvertido == entrada.rango[1] > entrada.rango[2]

\* C23: with fecha_desde later than fecha_hasta a direct call of
\* analizar_menciones_web does not run the pipeline: the search is not
\* called, the store is not touched and no tables are returned
C23_RangoInvalidoNoCorre ==
    RangoInvertido =>
        /\ llamadas_busqueda = 0
        /\ bd = BdVacia
        /\ retorno.tipo # "retorno"

\* the run has ended and neither the store nor the stopwords failed
FinSinFallos ==
    /\ pc = "fin"
    /\ ValidacionPasa
    /\ retorno.tipo \notin {"SQLAlchemyError", "LookupError"}

FilasConMenciones(tabla) ==
    { i \in DOMAIN tabla : tabla[i].menciones_totales_pagina > 0 }

\* menciones_totales_grupo / paginas_con_menciones as the pair of the two
PromedioDe(tabla) ==
    IF FilasConMenciones(tabla) = {}
    THEN <<0, 1>>
    ELSE <<Suma([i \in DOMAIN tabla |-> tabla[i].menciones_totales_pagina]),
           Cardinality(FilasConMenciones(tabla))>>

\* C24: the summary of a run has promedio_menciones_por_pagina 0 when no
\* returned page has mentions (no results, none with mentions, or all of
\* them removed by the date filter), and otherwise menciones_totales_grupo
\* divided by paginas_con_menciones, a divisor that is not zero
C24_Promedio ==
    FinSinFallos =>
        /\ retorno.tipo = "retorno"
        /\ retorno.resumen.promedio_menciones_por_pagina = PromedioDe(retorno.df_paginas)
        /\ retorno.resumen.promedio_menciones_por_pagina[2] > 0
        /\ retorno.df_paginas = df_paginas

\* C25: a term that normalises to the empty string counts 0 in every text
\* and every mode
C25_TerminoVacioDaCero ==
    (fn.nombre = "_contar_menciones_termino" /\ fn.hecho
        /\ limpiar_texto(fn.termino) = <<>>) => fn.resultado = 0

\* a hashtag whose word is in the text
C25_Testigo ==
    /\ fn.nombre = "_contar_menciones_termino"
    /\ fn.hecho
    /\ fn.termino = <<"#", "a">>
    /\ fn.texto_limpio = <<"a", " ", "a">>
    /\ fn.modo = "cualquiera"
    /\ fn.resultado = 0

\* words of a page text for the bigrams: at most MaxPalabrasBigrama of them
MaxPalabrasBigrama == 2

VocabularioBigramas == {tejado, sol, gato}

TextosDeBigramas ==
    { Unir(palabras) : palabras \in SecuenciasHasta(VocabularioBigramas, MaxPalabrasBigrama) }
        \cup {TextoEscenario}

FilasDeBigramas == [texto : TextosDeBigramas, menciones_totales_pagina : {0, 1}]

\* the tables of no, one and two rows
TablasDeBigramas ==
    {<<>>} \cup { <<fila>> : fila \in FilasDeBigramas }
           \cup { <<fila, otra>> : fila \in FilasDeBigramas, otra \in FilasDeBigramas }

InitBigramas ==
    /\ EnReposo
    /\ fn \in [nombre : {"contar_bigramas"},
               paginas_df : TablasDeBigramas,
               grupo_terminos : {<<gato>>},
               top_n : 0..MaxTopN,
               hecho : {FALSE},
               resultado : {<<>>},
               bigramas : {<<>>},
               palabras_filtradas : {<<>>}]

\* the call with the stopwords loaded at the first attempt
LlamarBigramas ==
    /\ fn.nombre = "contar_bigramas"
    /\ ~fn.hecho
    /\ fn' = [fn EXCEPT
                 !.hecho = TRUE,
                 !.resultado = contar_bigramas(fn.paginas_df, fn.grupo_terminos, fn.top_n,
                                   asegurar_stopwords_espanol(None, "ok")).top,
                 !.bigramas = contar_bigramas(fn.paginas_df, fn.grupo_terminos, fn.top_n,
                                   asegurar_stopwords_espanol(None, "ok")).bigramas,
                 !.palabras_filtradas =
                     contar_bigramas(fn.paginas_df, fn.grupo_terminos, fn.top_n,
                         asegurar_stopwords_espanol(None, "ok")).palabras_filtradas]
    /\ UNCHANGED varsCorrida

NextBigramas == LlamarBigramas

SpecBigramas == InitBigramas /\ [][NextBigramas]_vars

\* the words of one page that the bigram filter keeps
FiltradasDePagina(texto, grupo) ==
    LET queda(palabra) ==
            /\ Len(palabra) >= 3
            /\ palabra \notin { NormalizarPalabra(q) : q \in StopwordsNLTK }
            /\ palabra \notin PalabrasDeGrupo(grupo)
    IN SelectSeq(PalabrasNormalizadas(texto), queda)

\* the filtered words of the pages with mentions, page after page
RECURSIVE FiltradasDeTabla(_, _)
FiltradasDeTabla(paginas_df, grupo) ==
    IF paginas_df = <<>> THEN <<>>
    ELSE (IF Head(paginas_df).menciones_totales_pagina > 0
          THEN FiltradasDePagina(Head(paginas_df).texto, grupo)
          ELSE <<>>) \o FiltradasDeTabla(Tail(paginas_df), grupo)

BigramasHechos == fn.nombre = "contar_bigramas" /\ fn.hecho

\* C26: the bigrams of contar_bigramas are the pairs of neighbours of the
\* filtered words of the pages with mentions taken page after page: n
\* filtered words give max(0, n - 1) bigrams, and the table holds at most
\* top_n of them with their frequencies in descending order
C26_Bigramas ==
    BigramasHechos =>
        /\ fn.palabras_filtradas = FiltradasDeTabla(fn.paginas_df, fn.grupo_terminos)
        /\ Len(fn.bigramas) = IF Len(fn.palabras_filtradas) > 0
                              THEN Len(fn.palabras_filtradas) - 1 ELSE 0
        /\ \A i \in DOMAIN fn.bigramas :
              fn.bigramas[i] = fn.palabras_filtradas[i] \o <<" ">> \o fn.palabras_filtradas[i + 1]
        /\ EsTopDe(fn.resultado, fn.bigramas, fn.top_n)

\* a bigram made of the last word of a page and the first of the next
C26_Testigo ==
    /\ BigramasHechos
    /\ Len(fn.paginas_df) = 2
    /\ fn.paginas_df[1].texto = Unir(<<tejado, gato>>)
    /\ fn.paginas_df[2].texto = Unir(<<sol, tejado>>)
    /\ fn.palabras_filtradas = <<tejado, sol, tejado>>
    /\ fn.top_n = 1
    /\ fn.resultado = << <<Unir(<<tejado, sol>>), 1>> >>

(***************************************************************************)
(* _buscar_ddg_iterativo over a small web (src/fuentes_web.py, lines       *)
(* 136-243): what it appends, with the urls, the canonical addresses and   *)
(* the links of the pages it fetches.                                      *)
(***************************************************************************)
\* hits of the search library in one call of the detailed model
MaxHitsWeb == 2

UrlsWeb == {"A/1", "A/2", "b/1"}

\* urlparse(url).netloc
Netloc(url) == IF url = "b/1" THEN <<"b">> ELSE <<"A">>

\* what extraer_texto_y_fecha_de_url finds at a url: ok is FALSE when the
\* download or the parse fails; canonica is the href of link rel=canonical,
\* enlaces the http links of the page, enlaces_en_texto the links that
\* BeautifulSoup finds in the text of its paragraphs (line 212)
PaginasWeb ==
    [ok : {FALSE}, canonica : {None}, enlaces : {<<>>}, enlaces_en_texto : {<<>>}]
    \cup [ok : {TRUE}, canonica : {None, Some("A/2")},
          enlaces : {<<>>, <<"A/1">>, <<"b/1">>},
          enlaces_en_texto : {<<>>, <<"b/1">>}]

\* the third value extraer_texto_y_fecha_de_url returns (lines 106-110, 126, 133)
CanonicaDe(web, url) ==
    IF ~web[url].ok THEN None
    ELSE IF web[url].canonica = None THEN Some(url) ELSE web[url].canonica

\* sub in s, for strings
Contiene(sub, s) ==
    \E i \in 0..(Len(s) - Len(sub)) : SubSeq(s, i + 1, i + Len(sub)) = sub

\* resultados.append(...) with vistos.add(canonica) before it
AgregarResultado(e, url, canonica, fuente, profundidad) ==
    [resultados |-> Append(e.resultados,
                           [url |-> url, dominio |-> Netloc(url), canonica |-> canonica,
                            fuente |-> fuente, profundidad |-> profundidad]),
     vistos |-> e.vistos \cup {canonica}]

\* lines 217-238: the loop over enlaces_tmp[:3]
RECURSIVE CrawlTerciarioWeb(_, _, _, _)
CrawlTerciarioWeb(e, max_resultados, enlaces, web) ==
    IF enlaces = <<>> \/ Len(e.resultados) >= max_resultados THEN e
    ELSE CrawlTerciarioWeb(
             IF Head(enlaces) \in e.vistos THEN e
             ELSE AgregarResultado(e, Head(enlaces),
                                   O(CanonicaDe(web, Head(enlaces)), Some(Head(enlaces)))[1],
                                   "crawl", 3),
             max_resultados, Tail(enlaces), web)

\* lines 192-238 for a link that passed line 190
SeguirEnlace(e, max_resultados, enlace, web, profundidad_max) ==
    IF profundidad_max > 2 /\ web[enlace].ok
    THEN CrawlTerciarioWeb(
             AgregarResultado(e, enlace, O(CanonicaDe(web, enlace), Some(enlace))[1],
                              "crawl", 2),
             max_resultados, Primeros(web[enlace].enlaces_en_texto, MaxEnlacesTerciarios), web)
    ELSE AgregarResultado(e, enlace, O(CanonicaDe(web, enlace), Some(enlace))[1], "crawl", 2)

\* lines 187-238: the loop over secundarios
RECURSIVE CrawlSecundarioWeb(_, _, _, _, _, _)
CrawlSecundarioWeb(e, max_resultados, enlaces, canonica, web, profundidad_max) ==
    IF enlaces = <<>> \/ Len(e.resultados) >= max_resultados THEN e
    ELSE CrawlSecundarioWeb(
             IF Head(enlaces) \in e.vistos \/ (canonica # None /\ Head(enlaces) = canonica[1])
             THEN e
             ELSE SeguirEnlace(e, max_resultados, Head(enlaces), web, profundidad_max),
             max_resultados, Tail(enlaces), canonica, web, profundidad_max)

\* lines 171-185 for a hit that passed lines 154-168
AgregarHit(e, max_resultados, crawl_extendido, web, url, profundidad_max) ==
    IF crawl_extendido /\ Len(e.resultados) + 1 < max_resultados
    THEN CrawlSecundarioWeb(
             AgregarResultado(e, url, O(CanonicaDe(web, url), Some(url))[1], "ddg", 1),
             max_resultados,
             Primeros(IF web[url].ok THEN web[url].enlaces ELSE <<>>,
                      crawl_profundo_max_enlaces),
             CanonicaDe(web, url), web, profundidad_max)
    ELSE AgregarResultado(e, url, O(CanonicaDe(web, url), Some(url))[1], "ddg", 1)

\* lines 152-238: one pass of the loop over the hits; hit is None for a hit
\* without href and url
PasoDeHitWeb(e, max_resultados, crawl_extendido, dominio_filtro, web, hit, profundidad_max) ==
    IF hit = None \/ hit[1] \in e.vistos THEN e
    ELSE IF /\ dominio_filtro # None /\ dominio_filtro[1] # <<>>
            /\ ~Contiene(MapChars(dominio_filtro[1], Lower), MapChars(Netloc(hit[1]), Lower))
    THEN e
    ELSE IF O(CanonicaDe(web, hit[1]), hit)[1] \in e.vistos THEN e
    ELSE AgregarHit(e, max_resultados, crawl_extendido, web, hit[1], profundidad_max)

InitWeb ==
    /\ EnReposo
    /\ fn \in [nombre : {"_buscar_ddg_iterativo"},
               web : [UrlsWeb -> PaginasWeb],
               dominio_filtro : {None, Some(<<"a">>)},
               crawl_extendido : BOOLEAN,
               max_resultados : {MaxResultadosDe(1)},
               hits : {0},
               estado : {[resultados |-> <<>>, vistos |-> {}]},
               fase : {"iterando"}]

\* one pass of the loop of line 152 over a hit of buscador.text
ProcesarHitWeb ==
    /\ fn.nombre = "_buscar_ddg_iterativo"
    /\ fn.fase = "iterando"
    /\ fn.hits < Min2(fn.max_resultados, MaxHitsWeb)
    /\ \E hit \in {None} \cup { Some(url) : url \in UrlsWeb } :
          fn' = [fn EXCEPT !.hits = @ + 1,
                           !.estado = PasoDeHitWeb(fn.estado, fn.max_resultados,
                                                   fn.crawl_extendido, fn.dominio_filtro,
                                                   fn.web, hit, crawl_profundidad_maxima)]
    /\ UNCHANGED varsCorrida

\* the hits run out, or an exception ends the loop: lines 239-243
DevolverResultadosWeb ==
    /\ fn.nombre = "_buscar_ddg_iterativo"
    /\ fn.fase = "iterando"
    /\ fn' = [fn EXCEPT !.fase = "retorno"]
    /\ UNCHANGED varsCorrida

NextWeb ==
    \/ ProcesarHitWeb
    \/ DevolverResultadosWeb

SpecWeb == InitWeb /\ [][NextWeb]_vars

ResultadosWeb ==
    IF fn.nombre = "_buscar_ddg_iterativo" THEN fn.estado.resultados ELSE <<>>

\* C27: with a domain filter, every result, a search hit or a page added
\* by the extended crawl, has a domain that contains the filter, whatever
\* the case of the letters
C27_DominioFiltrado ==
    (fn.nombre = "_buscar_ddg_iterativo" /\ fn.dominio_filtro # None) =>
        \A i \in DOMAIN ResultadosWeb :
            Contiene(MapChars(fn.dominio_filtro[1], Lower),
                     MapChars(ResultadosWeb[i].dominio, Lower))

\* C28: no two results have the same url, no two the same canonical
\* address, and vistos holds the canonical address of every result
C28_SinRepetidos ==
    fn.nombre = "_buscar_ddg_iterativo" =>
        /\ \A i, j \in DOMAIN ResultadosWeb :
              i # j => /\ ResultadosWeb[i].url # ResultadosWeb[j].url
                       /\ ResultadosWeb[i].canonica # ResultadosWeb[j].canonica
        /\ \A i \in DOMAIN ResultadosWeb : ResultadosWeb[i].canonica \in fn.estado.vistos

\* the date counters of a summary agree with each other and with the table
ContadoresCoherentes(resumen, tabla, incluir_paginas_sin_fecha) ==
    /\ resumen.paginas_antes_filtro_fecha
          = resumen.paginas_despues_filtro_fecha + resumen.paginas_excluidas_por_fecha
    /\ resumen.paginas_despues_filtro_fecha
          = resumen.paginas_en_rango_fecha + resumen.paginas_sin_fecha
    /\ ~incluir_paginas_sin_fecha => resumen.paginas_sin_fecha = 0
    /\ resumen.paginas_despues_filtro_fecha = Len(tabla)

FilasSuman(tabla) ==
    \A i \in DOMAIN tabla :
        Suma(tabla[i].menciones_termino) = tabla[i].menciones_totales_pagina

\* C30: in every page record, in the working table and in the returned
\* table, the columns menciones_termino_1..n add up to
\* menciones_totales_pagina, also when the group has a term at two places
C30_ColumnasSumanTotal ==
    /\ FilasSuman(registros)
    /\ FilasSuman(df_paginas)
    /\ retorno.tipo = "retorno" => FilasSuman(retorno.df_paginas)

====
